---- MODULE Spec2Model ----
(***************************************************************************)
(* Verification model of the just-mr fetch/setup engine.                   *)
(*                                                                         *)
(* Spec     : the git-tree fetch map (CreateGitTreeFetchMap::tree_to_cache)*)
(*            resolving several GitTreeInfo keys concurrently against one  *)
(*            shared Git object store at the Git root.                     *)
(* SpecMap  : one async map serving several ConsumeAfterKeysReady requests,*)
(*            the first of them issued by a driver (MultiRepoFetch,        *)
(*            DescribeTarget) that turns the outcome into an exit code.    *)
(* SpecGen  : one run of the generator command of a key, with its data:    *)
(*            command line, environment, captured output, diagnostic.      *)
(* SpecReach: the repository resolver (ReachableRepositories,              *)
(*            DefaultReachableRepositories) on a repositories description. *)
(* SpecCas  : the read calls of GitCAS on an object database.              *)
(* SpecOpen : GitCAS::Open called from several threads at once.            *)
(* SpecRc   : ReadJustMRRC resolving the locations of the rc file, and     *)
(*            main completing the options with the defaults.               *)
(* SpecFetch: MultiRepoFetch from the configuration to the start of the    *)
(*            fetch.                                                       *)
(***************************************************************************)
EXTENDS Integers, Sequences, FiniteSets, TLC

(***************************************************************************)
(* Bounds                                                                  *)
(***************************************************************************)
MaxKeys == 2

\* number of external calls (file system, network, subprocess, Git) that fail
\* or end abnormally during one run
MaxFaults == 1

\* keys of the async map of SpecMap, calls of ConsumeAfterKeysReady on it, and
\* the number of keys requested by all calls together
MaxMapKeys == 2

MaxRequests == 2

MaxRequested == 4

\* A GitTreeInfo key is identified by its hash (the declared tree id).
Keys == 1..MaxKeys
Trees == Keys

VARIABLES
    pc,        \* per key: position of the resolution (which continuation is awaited)
    events,    \* per key: calls made by the handlers of this key, in order
    value,     \* per key: the value passed to the setter ("unset" before)
    ops,       \* cells of the critical-git-op map and of the import-to-git map
    gitInit,   \* the bare repository at the Git root exists
    gitTrees,  \* tree ids present in the object database at the Git root
    keepTags,  \* keys whose commit carries a keep tag in the Git root
    localCAS,  \* tree digests present in the local CAS
    tmpRepo,   \* per key: declared trees found in the repository committed from
               \* the command's working directory
    apis,      \* which of local_api / remote_api are configured
    faults,    \* number of failed external calls so far
    cell,      \* async map: per key the entry (absent, pending, ready, failed)
    tasks,     \* async map: per key the queued invocations of the compute function
    running,   \* async map: per key the invocations that have not finished yet
    calls,     \* async map: per key the number of invocations so far
    req,       \* per call of ConsumeAfterKeysReady: keys, state, values received
    failed,    \* the driver's `failed` flag
    exitCode,  \* the code returned by the driver ("none" while it runs)
    genIn,     \* generator run: launcher, key.command, key.env_vars,
               \* key.inherit_env and the ambient environment
    gen,       \* generator run: position, cmdline, env, output files, log
    repos,     \* resolver: the "repositories" value of the configuration
    setup,     \* resolver: the SetupRepos lists to_setup and to_include
    rstate,    \* resolver: phase and the main of the last resolution
    gitOdb,    \* Git CAS: the objects of the object database
    cas,       \* Git CAS: the last read call and what it returned
    opens,     \* Git CAS: per thread the position of its call of GitCAS::Open
    repo_mutex,\* Git CAS: the threads holding the mutex of OpenODB
    rc,        \* run control: workspace root and the locations of the rc file
    rcRun,     \* run control: position of ReadJustMRRC, what it set and logged
    fetchIn,   \* fetch: command line options and the repository configuration
    fetchRun   \* fetch: position of MultiRepoFetch, lists, log, exit code

fvars == <<pc, events, value, ops, gitInit, gitTrees, keepTags, localCAS,
           tmpRepo, apis, faults>>

mvars == <<cell, tasks, running, calls, req, failed, exitCode>>

gvars == <<genIn, gen>>

rvars == <<repos, setup, rstate>>

ovars == <<opens, repo_mutex>>

cvars == <<gitOdb, cas, ovars>>

lvars == <<rc, rcRun>>

nvars == <<fetchIn, fetchRun>>

vars == <<fvars, mvars, gvars, rvars, cvars, lvars, nvars>>

(***************************************************************************)
(* Sub-map operations requested by tree_to_cache                           *)
(***************************************************************************)
EnsureInitOp == <<"ENSURE_INIT", 0>>
InitialCommitOp(k) == <<"INITIAL_COMMIT", k>>
KeepTagOp(k) == <<"KEEP_TAG", k>>
ImportOp(k) == <<"IMPORT", k>>

OpKeys == {EnsureInitOp}
          \cup {InitialCommitOp(k) : k \in Keys}
          \cup {KeepTagOp(k) : k \in Keys}
          \cup {ImportOp(k) : k \in Keys}

\* target_path of an operation: the Git root, or the key's own tmp directory
TargetPath(o) ==
    IF o[1] = "INITIAL_COMMIT" THEN <<"tmp", o[2]>> ELSE <<"gitroot", 0>>

GitRoot == <<"gitroot", 0>>

OpCell(st, res) == [st |-> st, res |-> res]

\* ConsumeAfterKeysReady on a sub-map: a key not yet in the map is queued for
\* computation, a key already present is left as it is (its value is reused)
RequestOp(m, o) ==
    IF m[o].st = "absent" THEN [m EXCEPT ![o] = OpCell("queued", "none")] ELSE m

Has(k, e) == \E i \in DOMAIN events[k] : events[k][i] = e

InSeq(s, e) == \E i \in DOMAIN s : s[i] = e

\* position of the first occurrence of e in s, 0 if there is none
Pos(s, e) ==
    LET I == {i \in DOMAIN s : s[i] = e}
    IN  IF I = {} THEN 0 ELSE CHOOSE i \in I : \A j \in I : i <= j

Count(s, e) == Cardinality({i \in DOMAIN s : s[i] = e})

Min(S) == CHOOSE x \in S : \A y \in S : x <= y

\* the set of entries of a sequence
Range(s) == {s[i] : i \in DOMAIN s}

\* events that record the failure (or abnormal end) of an external call
\* (made by a handler itself; failures of sub-map operations are counted where
\* the operation ends)
FaultEvents ==
    {"OpenRootFail", "ProbeError", "RetrieveFail", "RemoteTmpDirFail",
     "CopyFail", "TmpDirFail", "OutDirFail", "ExecFail", "ExecExitN",
     "OpenTmpFail", "CheckError", "OpenJustFail", "FetchTmpDirFail"}

NumFaults(s) == Cardinality({i \in DOMAIN s : s[i] \in FaultEvents})

(***************************************************************************)
(* GitRepo::CheckTreeExists: nullopt on error, otherwise presence.  On     *)
(* error the callee reports through the logger it was given.               *)
(***************************************************************************)
CheckTreeExists(tree, odb, ioErr) ==
    IF ioErr THEN "error" ELSE IF tree \in odb THEN "found" ELSE "missing"

CheckTreeExistsLog(res) == IF res = "error" THEN <<"Fatal">> ELSE <<>>

\* GitRepoRemote::FetchViaTmpRepo reports its failure through the logger
FetchViaTmpRepoLog(ok) == IF ok THEN <<>> ELSE <<"Fatal">>

(***************************************************************************)
(* tree_to_cache, entry (lines 47-60): request ENSURE_INIT for the Git root*)
(***************************************************************************)
Compute(k) ==
    /\ pc[k] = "idle"
    /\ pc' = [pc EXCEPT ![k] = "wait_init"]
    /\ events' = [events EXCEPT ![k] = Append(@, "EnsureInitReq")]
    /\ ops' = RequestOp(ops, EnsureInitOp)
    /\ UNCHANGED <<mvars, gvars, rvars, cvars, lvars, nvars>>
    /\ UNCHANGED <<value, gitInit, gitTrees, keepTags, localCAS, tmpRepo, apis, faults>>

(***************************************************************************)
(* Continuation of ENSURE_INIT (lines 70-226)                              *)
(***************************************************************************)
\* line 73 / 229 / 362: `if (not op_result.result)`
InitFlag(res) == res = "ok"

\* line 102: `if (*tree_found)`
ProbeIsHit_Any(tf) == tf # "error"

ProbeIsHit(tf) == tf = "found"

\* line 103: the value handed to the setter on a local hit
HitSetter_False == "SetterFalse"

HitSetter == "SetterTrue"

\* line 165: the remote-CAS branch returns after requesting the import
ReturnsAfterRemotePath_Missing == FALSE

ReturnsAfterRemotePath == TRUE

\* lines 70-105: flag check, open of the shared repository, local probe
ProbeStage(k, res, in, odb) ==
    LET tf == CheckTreeExists(k, odb, in.ioErr) IN
    IF ~InitFlag(res)
    THEN [ev |-> <<"InitEmpty", "Fatal">>, go |-> "failed"]
    ELSE IF ~in.openOk
    THEN [ev |-> <<"InitOk", "OpenRootFail", "Fatal">>, go |-> "failed"]
    ELSE IF tf = "error"
    THEN [ev |-> <<"InitOk", "OpenRoot", "ProbeError">>
                    \o CheckTreeExistsLog(tf),
          go |-> "failed"]
    ELSE IF ProbeIsHit(tf)
    THEN [ev |-> <<"InitOk", "OpenRoot",
                   IF tf = "found" THEN "ProbeFound" ELSE "ProbeMissing",
                   HitSetter>>,
          go |-> "done"]
    ELSE [ev |-> <<"InitOk", "OpenRoot", "ProbeMissing">>, go |-> "miss"]

\* lines 107-166: remote CAS probe, retrieval, copy to a tmp dir, import request
RemoteStage(k, in, cfg) ==
    IF ~(cfg.remote /\ cfg.local)
    THEN [ev |-> <<>>, taken |-> FALSE, go |-> "miss", cas |-> FALSE]
    ELSE IF ~in.avail
    THEN [ev |-> <<"IsAvailable", "RemoteUnavail">>,
          taken |-> FALSE, go |-> "miss", cas |-> FALSE]
    ELSE IF ~in.retr
    THEN [ev |-> <<"IsAvailable", "RemoteAvail", "RetrieveToCas",
                   "RetrieveFail">>,
          taken |-> FALSE, go |-> "miss", cas |-> FALSE]
    ELSE LET e == <<"IsAvailable", "RemoteAvail", "RetrieveToCas",
                    "RetrieveOk", "Stop">> IN
         IF ~in.tmpOk
         THEN [ev |-> e \o <<"RemoteTmpDirFail", "Fatal">>,
               taken |-> TRUE, go |-> "failed", cas |-> TRUE]
         ELSE IF ~in.copyOk
         THEN [ev |-> e \o <<"RemoteTmpDir", "RetrieveToPaths", "CopyFail",
                             "Fatal">>,
               taken |-> TRUE, go |-> "failed", cas |-> TRUE]
         ELSE [ev |-> e \o <<"RemoteTmpDir", "RetrieveToPaths", "CopyOk",
                             "ImportReq">>,
               taken |-> TRUE, go |-> "wait_import", cas |-> TRUE]

\* line 196: `if (not command_output)`: the command could not be executed.
\* The exit status of a command that did run is not looked at.
ExecFailed_NonZero(out) == out # "exit0"

ExecFailed(out) == out = "none"

ExecEvent(out) ==
    IF out = "none" THEN "ExecFail"
    ELSE IF out = "exit0" THEN "ExecExit0" ELSE "ExecExitN"

\* lines 167-226: tmp dirs, command execution, INITIAL_COMMIT request
GeneratorStage(k, in) ==
    IF ~in.tmpOk2
    THEN [ev |-> <<"TmpDirFail", "Fatal">>, go |-> "failed", ran |-> FALSE]
    ELSE IF ~in.outOk
    THEN [ev |-> <<"TmpDir", "OutDirFail", "Fatal">>, go |-> "failed",
          ran |-> FALSE]
    ELSE IF ExecFailed(in.exec)
    THEN [ev |-> <<"TmpDir", "OutDir", "Execute", ExecEvent(in.exec), "Fatal">>,
          go |-> "failed", ran |-> FALSE]
    ELSE [ev |-> <<"TmpDir", "OutDir", "Execute", ExecEvent(in.exec),
                   "CommitReq">>,
          go |-> "wait_commit", ran |-> TRUE]

InitContResult(k, res, in, odb, cfg) ==
    LET p == ProbeStage(k, res, in, odb)
        r == RemoteStage(k, in, cfg)
        g == GeneratorStage(k, in)
    IN  IF p.go # "miss"
        THEN [ev |-> p.ev, go |-> p.go, cas |-> FALSE, import |-> FALSE,
              ran |-> FALSE]
        ELSE IF r.taken /\ ReturnsAfterRemotePath
        THEN [ev |-> p.ev \o <<"Start">> \o r.ev, go |-> r.go, cas |-> r.cas,
              import |-> r.go = "wait_import", ran |-> FALSE]
        ELSE [ev |-> p.ev \o <<"Start">> \o r.ev \o g.ev, go |-> g.go,
              cas |-> r.cas, import |-> r.go = "wait_import", ran |-> g.ran]

ExecOutcomes == {"none", "exit0", "exitN"}

\* outcomes of the external calls of one handler run, by the number n of
\* calls that may still fail
InitInputs ==
    [n \in 0..MaxFaults |->
        {i : i \in
            {in \in [openOk : BOOLEAN, ioErr : BOOLEAN, avail : BOOLEAN,
                     retr : BOOLEAN, tmpOk : BOOLEAN, copyOk : BOOLEAN,
                     tmpOk2 : BOOLEAN, outOk : BOOLEAN, exec : ExecOutcomes] :
                Cardinality({f \in {"openOk", "retr", "tmpOk", "copyOk",
                                    "tmpOk2", "outOk"} : ~in[f]})
                + (IF in.ioErr THEN 1 ELSE 0)
                + (IF in.exec # "exit0" THEN 1 ELSE 0) <= n}}]

\* what the command left in its working directory, as far as the declared tree
\* is concerned: the tree is part of the committed directory or it is not
ContentChoices(k) == {{}, {k}}

\* further objects reachable from the commit, which the fetch brings along
ExtraObjects(k) == {{}, Trees \ {k}}

SetterValue(ev, old) ==
    IF InSeq(ev, "SetterTrue") THEN "true"
    ELSE IF InSeq(ev, "SetterFalse") THEN "false"
    ELSE old

InitCont(k) ==
    /\ pc[k] = "wait_init"
    /\ ops[EnsureInitOp].st = "ready"
    /\ \E r \in {InitContResult(k, ops[EnsureInitOp].res, in, gitTrees, apis) :
                    in \in InitInputs[MaxFaults - faults]} :
            /\ faults + NumFaults(r.ev) <= MaxFaults
            /\ faults' = faults + NumFaults(r.ev)
            /\ pc' = [pc EXCEPT ![k] = r.go]
            /\ events' = [events EXCEPT ![k] = @ \o r.ev]
            /\ value' = [value EXCEPT ![k] = SetterValue(r.ev, @)]
            /\ localCAS' = IF r.cas THEN localCAS \cup {k} ELSE localCAS
            /\ ops' = LET m1 == IF r.import THEN RequestOp(ops, ImportOp(k))
                                ELSE ops
                      IN  IF r.ran THEN RequestOp(m1, InitialCommitOp(k))
                          ELSE m1
    /\ UNCHANGED <<mvars, gvars, rvars, cvars, lvars, nvars>>
    /\ UNCHANGED <<gitInit, gitTrees, keepTags, tmpRepo, apis>>

\* error continuation of a sub-map request (lines 154-163, 372-384, 386-394,
\* 396-403): the message is passed on to the logger with the same fatal flag
SubMapError(k, at, o, name) ==
    /\ pc[k] = at
    /\ ops[o].st = "failed"
    /\ pc' = [pc EXCEPT ![k] = "failed"]
    /\ events' = [events EXCEPT ![k] = @ \o <<name, "Fatal">>]
    /\ UNCHANGED <<mvars, gvars, rvars, cvars, lvars, nvars>>
    /\ UNCHANGED <<value, ops, gitInit, gitTrees, keepTags, localCAS, tmpRepo, apis, faults>>

InitErr(k) == SubMapError(k, "wait_init", EnsureInitOp, "EnsureInitError")

(***************************************************************************)
(* Critical-git-op map and import-to-git map: at most one operation is in  *)
(* flight per target path; a finished operation keeps its result.          *)
(***************************************************************************)
OpRunningOn(path) ==
    \E o \in OpKeys : ops[o].st = "running" /\ TargetPath(o) = path

\* an operation on the Git root waits for its turn; the tmp directory of a key
\* is the target of one operation only, which is run as soon as it is taken up
OpBegin(o) ==
    /\ ops[o].st = "queued"
    /\ TargetPath(o) = GitRoot
    /\ ~OpRunningOn(TargetPath(o))
    /\ ops' = [ops EXCEPT ![o] = OpCell("running", "none")]
    /\ UNCHANGED <<mvars, gvars, rvars, cvars, lvars, nvars>>
    /\ UNCHANGED <<pc, events, value, gitInit, gitTrees, keepTags, localCAS,
                   tmpRepo, apis, faults>>

OpOutcomes == {"ok", "empty", "fatal"}

OpEnd(o) ==
    /\ \/ ops[o].st = "running"
       \/ ops[o].st = "queued" /\ TargetPath(o) # GitRoot
    /\ \E out \in OpOutcomes :
       \E content \in IF o[1] = "INITIAL_COMMIT" /\ out = "ok"
                      THEN ContentChoices(o[2]) ELSE {{}} :
         /\ out # "ok" => faults < MaxFaults
         /\ faults' = IF out = "ok" THEN faults ELSE faults + 1
         /\ ops' = [ops EXCEPT ![o] = IF out = "fatal"
                                      THEN OpCell("failed", "none")
                                      ELSE OpCell("ready", out)]
         /\ gitInit' = IF o[1] = "ENSURE_INIT" /\ out = "ok" THEN TRUE
                       ELSE gitInit
         /\ gitTrees' = IF o[1] = "IMPORT" /\ out = "ok"
                        THEN gitTrees \cup {o[2]} ELSE gitTrees
         /\ keepTags' = IF o[1] = "KEEP_TAG" /\ out = "ok"
                        THEN keepTags \cup {o[2]} ELSE keepTags
         /\ tmpRepo' = IF o[1] = "INITIAL_COMMIT" /\ out = "ok"
                       THEN [tmpRepo EXCEPT ![o[2]] = content]
                       ELSE tmpRepo
    /\ UNCHANGED <<mvars, gvars, rvars, cvars, lvars, nvars>>
    /\ UNCHANGED <<pc, events, value, localCAS, apis>>

(***************************************************************************)
(* Continuation of the import-to-git request (lines 145-153)               *)
(***************************************************************************)
\* line 146: `if (not values[0]->second)`
ImportFlag(res) == res = "ok"

\* lines 146-150 without the `return` after the call of the logger
ImportContEvents_NoReturn(res) ==
    IF ~ImportFlag(res) THEN <<"ImportEmpty", "Fatal", "SetterFalse">>
    ELSE <<"ImportOk", "SetterFalse">>

ImportContEvents(res) ==
    IF ~ImportFlag(res) THEN <<"ImportEmpty", "Fatal">>
    ELSE <<"ImportOk", "SetterFalse">>

Finish(k, ev) ==
    /\ events' = [events EXCEPT ![k] = @ \o ev]
    /\ value' = [value EXCEPT ![k] = SetterValue(ev, @)]
    /\ pc' = [pc EXCEPT ![k] = IF InSeq(ev, "SetterTrue")
                                  \/ InSeq(ev, "SetterFalse")
                               THEN "done" ELSE "failed"]

ImportCont(k) ==
    /\ pc[k] = "wait_import"
    /\ ops[ImportOp(k)].st = "ready"
    /\ Finish(k, ImportContEvents(ops[ImportOp(k)].res))
    /\ UNCHANGED <<mvars, gvars, rvars, cvars, lvars, nvars>>
    /\ UNCHANGED <<ops, gitInit, gitTrees, keepTags, localCAS, tmpRepo, apis, faults>>

ImportErr(k) == SubMapError(k, "wait_import", ImportOp(k), "ImportError")

(***************************************************************************)
(* Continuation of INITIAL_COMMIT (lines 226-353), up to and including the *)
(* call of FetchViaTmpRepo, which runs on the calling worker               *)
(***************************************************************************)
\* line 229
CommitFlag(res) == res = "ok"

\* line 260: `if (not *tree_check)` ends the resolution
TreeCheckPassed_Ignored(tc) == tc # "error"

TreeCheckPassed(tc) == tc = "found"

CommitInputs ==
    [n \in 0..MaxFaults |->
        {i : i \in
            {in \in [openOk : BOOLEAN, ioErr : BOOLEAN, open2Ok : BOOLEAN,
                     tmpOk : BOOLEAN] :
                Cardinality({f \in {"openOk", "open2Ok", "tmpOk"} : ~in[f]})
                + (IF in.ioErr THEN 1 ELSE 0) <= n}}]

CommitContResult(k, res, in, odb) ==
    LET tc == CheckTreeExists(k, odb, in.ioErr) IN
    IF ~CommitFlag(res)
    THEN [ev |-> <<"CommitEmpty", "Fatal">>, go |-> "failed"]
    ELSE IF ~in.openOk
    THEN [ev |-> <<"CommitOk", "OpenTmpFail", "Fatal">>, go |-> "failed"]
    ELSE IF tc = "error"
    THEN [ev |-> <<"CommitOk", "OpenTmp", "CheckError">>
                    \o CheckTreeExistsLog(tc),
          go |-> "failed"]
    ELSE LET e == <<"CommitOk", "OpenTmp",
                    IF tc = "found" THEN "CheckFound" ELSE "CheckMissing">>
         IN  IF ~TreeCheckPassed(tc)
             THEN [ev |-> e \o <<"Fatal">>, go |-> "failed"]
             ELSE IF ~in.open2Ok
             THEN [ev |-> e \o <<"OpenJustFail", "Fatal">>, go |-> "failed"]
             ELSE IF ~in.tmpOk
             THEN [ev |-> e \o <<"OpenJust", "FetchTmpDirFail", "Fatal">>,
                   go |-> "failed"]
             ELSE [ev |-> e \o <<"OpenJust", "FetchTmpDir", "FetchBegin">>,
                   go |-> "fetching"]

CommitCont(k) ==
    /\ pc[k] = "wait_commit"
    /\ ops[InitialCommitOp(k)].st = "ready"
    /\ \E r \in {CommitContResult(k, ops[InitialCommitOp(k)].res, in,
                                    tmpRepo[k]) :
                    in \in CommitInputs[MaxFaults - faults]} :
            /\ faults + NumFaults(r.ev) <= MaxFaults
            /\ faults' = faults + NumFaults(r.ev)
            /\ pc' = [pc EXCEPT ![k] = r.go]
            /\ events' = [events EXCEPT ![k] = @ \o r.ev]
    /\ UNCHANGED <<mvars, gvars, rvars, cvars, lvars, nvars>>
    /\ UNCHANGED <<value, ops, gitInit, gitTrees, keepTags, localCAS, tmpRepo, apis>>

CommitErr(k) ==
    SubMapError(k, "wait_commit", InitialCommitOp(k), "InitialCommitError")

\* lines 321-353: FetchViaTmpRepo returns; on success KEEP_TAG is requested
FetchEndEvents_KeepAnyway(ok) ==
    IF ok THEN <<"FetchOk", "KeepTagReq">>
    ELSE <<"FetchFail", "KeepTagReq">>

FetchEndEvents(ok) ==
    IF ok THEN <<"FetchOk", "KeepTagReq">>
    ELSE <<"FetchFail">> \o FetchViaTmpRepoLog(ok)

FetchEnd(k) ==
    /\ pc[k] = "fetching"
    /\ \E ok \in BOOLEAN :
       \E extra \in IF ok THEN ExtraObjects(k) ELSE {{}} :
         /\ ~ok => faults < MaxFaults
         /\ faults' = IF ok THEN faults ELSE faults + 1
         /\ events' = [events EXCEPT ![k] = @ \o FetchEndEvents(ok)]
         /\ pc' = [pc EXCEPT ![k] =
                      IF InSeq(FetchEndEvents(ok), "KeepTagReq")
                      THEN "wait_keep" ELSE "failed"]
         /\ gitTrees' = IF ok THEN gitTrees \cup tmpRepo[k] \cup extra
                        ELSE gitTrees
         /\ ops' = IF InSeq(FetchEndEvents(ok), "KeepTagReq")
                   THEN RequestOp(ops, KeepTagOp(k)) ELSE ops
    /\ UNCHANGED <<mvars, gvars, rvars, cvars, lvars, nvars>>
    /\ UNCHANGED <<value, gitInit, keepTags, localCAS, tmpRepo, apis>>

(***************************************************************************)
(* Continuation of KEEP_TAG (lines 359-371)                                *)
(***************************************************************************)
\* line 362
KeepTagFlag_Ignored(res) == TRUE

KeepTagFlag(res) == res = "ok"

\* lines 367-370
KeepTagSuccess_NoStop == <<"KeepTagOk", "SetterFalse">>

KeepTagSuccess == <<"KeepTagOk", "Stop", "SetterFalse">>

KeepTagContEvents(res) ==
    IF ~KeepTagFlag(res) THEN <<"KeepTagEmpty", "Fatal">>
    ELSE IF res = "ok" THEN KeepTagSuccess
    ELSE <<"KeepTagEmpty">> \o Tail(KeepTagSuccess)

KeepTagCont(k) ==
    /\ pc[k] = "wait_keep"
    /\ ops[KeepTagOp(k)].st = "ready"
    /\ Finish(k, KeepTagContEvents(ops[KeepTagOp(k)].res))
    /\ UNCHANGED <<mvars, gvars, rvars, cvars, lvars, nvars>>
    /\ UNCHANGED <<ops, gitInit, gitTrees, keepTags, localCAS, tmpRepo, apis, faults>>

KeepTagErr(k) == SubMapError(k, "wait_keep", KeepTagOp(k), "KeepTagError")

(***************************************************************************)
(* One run of the generator command (lines 182-201 and 253-288), with the  *)
(* data it works on                                                        *)
(***************************************************************************)
MaxEnvNames == 2

EnvNames == 1..MaxEnvNames

\* the configured launcher (empty, or a prefix) and key.command
Launchers == {<<>>, <<"env">>, <<"env", "--">>}

Commands == {<<"gen">>, <<"sh", "gen">>}

\* names a temporary directory can get
MaxTmpDirs == 2

TmpDirs == 1..MaxTmpDirs

\* StorageUtils::CreateTypedTmpDir creates a directory that did not exist:
\* the names it can return when the directories of `existing` are there
CreateTypedTmpDir(existing) == TmpDirs \ existing

\* key.hash
GenHash == "tree-id"

\* a variable is unset, or set by key.env_vars ("v") or in the ambient
\* environment ("a")
GenInputs ==
    [launcher : Launchers, command : Commands,
     env_vars : [EnvNames -> {"unset", "v"}],
     inherit_env : SUBSET EnvNames,
     ambient : [EnvNames -> {"unset", "a"}]]

\* std::getenv (line 189); a null pointer is "unset"
Getenv(ambient, n) == ambient[n]

\* lines 187-193: env starts as key.env_vars; every name of key.inherit_env
\* that is set in the ambient environment is then assigned its ambient value
GeneratorEnv(env_vars, inherit_env, ambient) ==
    [n \in EnvNames |->
        IF n \in inherit_env /\ Getenv(ambient, n) # "unset"
        THEN Getenv(ambient, n)
        ELSE env_vars[n]]

\* the launcher appended to the command
Cmdline_Swapped(launcher, command) == command \o launcher

\* lines 183-186: the command is appended to the launcher
Cmdline(launcher, command) == launcher \o command

\* nlohmann::json(cmdline).dump(): the list of words, marked as JSON text
JsonDump(cmdline) == <<"json">> \o cmdline

\* lines 263-272: a file that cannot be read contributes the empty string
ReadFileOrEmpty(file) == IF file = "unreadable" THEN "" ELSE file

\* lines 273-279
OutputText_BothNeeded(out_str, err_str) ==
    IF out_str # "" /\ err_str # ""
    THEN <<<<".\nOutput of command:\n">>, <<out_str>>, <<err_str>>>>
    ELSE <<>>

OutputText(out_str, err_str) ==
    IF out_str # "" \/ err_str # ""
    THEN <<<<".\nOutput of command:\n">>, <<out_str>>, <<err_str>>>>
    ELSE <<>>

\* lines 280-286: the parts of the message, in order
MismatchMessage(cmdline, hash, out_str, err_str) ==
    <<<<"Executing ">>, JsonDump(cmdline),
      <<" did not create specified tree ">>, <<hash>>>>
        \o OutputText(out_str, err_str)

\* lines 197-199
ExecuteFailedMessage(cmdline) ==
    <<<<"Failed to execute command:\n">>, JsonDump(cmdline)>>

GenIdle ==
    [pc |-> "start", cmdline |-> <<>>,
     env |-> [n \in EnvNames |-> "unset"],
     stdout_file |-> "", stderr_file |-> "", tree |-> "none", log |-> <<>>,
     tmp_dir |-> 0, out_dir |-> 0, alive |-> {}]

StdoutFiles == {"unreadable", "", "out"}

StderrFiles == {"unreadable", "", "err"}

\* lines 167-226: tmp_dir and out_dir are created (both creations succeed
\* here), the command is run in tmp_dir with cmdline and env and its output
\* is captured in two files in out_dir; a failed Execute returns, which
\* releases both directories; otherwise the continuation of INITIAL_COMMIT
\* holds both (lines 215-216)
GenExecute ==
    /\ gen.pc = "start"
    /\ \E t \in CreateTypedTmpDir({}) :
       \E d \in CreateTypedTmpDir({t}) :
       LET cmdline == Cmdline(genIn.launcher, genIn.command)
           env == GeneratorEnv(genIn.env_vars, genIn.inherit_env,
                               genIn.ambient)
       IN  \/ gen' = [gen EXCEPT !.pc = "failed", !.cmdline = cmdline,
                                 !.env = env, !.tmp_dir = t, !.out_dir = d,
                                 !.log = Append(@,
                                     [msg |-> ExecuteFailedMessage(cmdline),
                                      fatal |-> TRUE])]
           \/ \E o \in StdoutFiles, e \in StderrFiles :
                gen' = [gen EXCEPT !.pc = "committed", !.cmdline = cmdline,
                                   !.env = env, !.stdout_file = o,
                                   !.stderr_file = e, !.tmp_dir = t,
                                   !.out_dir = d, !.alive = {t, d}]
    /\ UNCHANGED genIn
    /\ UNCHANGED <<fvars, mvars, rvars, cvars, lvars, nvars>>

\* lines 253-288: the tree check on the committed directory and its outcome
GenVerify ==
    /\ gen.pc = "committed"
    /\ \E tc \in {"error", "found", "missing"} :
         gen' = [gen EXCEPT
                   !.tree = tc,
                   !.pc = IF TreeCheckPassed(tc) THEN "fetch" ELSE "failed",
                   !.log = IF tc = "error"
                           THEN Append(@, [msg |-> <<<<"While checking tree exists:\n">>>>,
                                           fatal |-> TRUE])
                           ELSE IF ~TreeCheckPassed(tc)
                           THEN Append(@,
                                  [msg |-> MismatchMessage(gen.cmdline, GenHash,
                                             ReadFileOrEmpty(gen.stdout_file),
                                             ReadFileOrEmpty(gen.stderr_file)),
                                   fatal |-> TRUE])
                           ELSE @]
    /\ UNCHANGED genIn
    /\ UNCHANGED <<fvars, mvars, rvars, cvars, lvars, nvars>>

\* line 353: the continuation of INITIAL_COMMIT has returned, and with it go
\* its captures tmp_dir and out_dir
GenReturn ==
    /\ gen.pc \in {"fetch", "failed"}
    /\ gen.alive # {}
    /\ gen' = [gen EXCEPT !.alive = {}]
    /\ UNCHANGED genIn
    /\ UNCHANGED <<fvars, mvars, rvars, cvars, lvars, nvars>>

GenAtRest ==
    /\ genIn = [launcher |-> <<>>, command |-> <<"gen">>,
                env_vars |-> [n \in EnvNames |-> "unset"],
                inherit_env |-> {},
                ambient |-> [n \in EnvNames |-> "unset"]]
    /\ gen = GenIdle

(***************************************************************************)
(* ReachableRepositories and DefaultReachableRepositories on a             *)
(* "repositories" configuration                                            *)
(***************************************************************************)
MaxRepoNames == 4

MaxEntries == 5

\* repository names; a configuration value is a name (a string), some other
\* JSON value, or absent (Expression::none_t)
RepoNames == 1..MaxRepoNames

NonString == 0

NoValue == -1

kAltDirs == <<"target_root", "rule_root", "expression_root">>

\* a repository description: the values of its bindings in the order in
\* which the map hands them out, and its alternative roots
EmptyRepo ==
    [bindings |-> <<>>, target_root |-> NoValue, rule_root |-> NoValue,
     expression_root |-> NoValue]

Max(S) == CHOOSE x \in S : \A y \in S : y <= x

\* the names a configuration mentions are numbered in the order of their
\* first mention: the described repositories are 1..Len(c)
UsedNames(c) ==
    Max({Len(c)}
        \cup UNION {Range(c[n].bindings) : n \in DOMAIN c}
        \cup {c[n][kAltDirs[l]] : n \in DOMAIN c, l \in DOMAIN kAltDirs})

RepoValues(c) == {NonString} \cup 1..Min({MaxRepoNames, UsedNames(c) + 1})

\* the number of entries of a "repositories" map: its repositories, their
\* bindings and their roots
RECURSIVE EntryCount(_, _)
EntryCount(c, n) ==
    IF n > Len(c) THEN 0
    ELSE 1 + Len(c[n].bindings)
           + Cardinality({l \in DOMAIN kAltDirs : c[n][kAltDirs[l]] # NoValue})
           + EntryCount(c, n + 1)

IsString_Any(v) == v # NoValue

IsString(v) == v \in RepoNames

\* vector::clear (lines 418-419)
Cleared_Kept(list) == list

Cleared(list) == <<>>

\* emplace_back (line 431)
Visit_Front(to_include, repo_name) == <<repo_name>> \o to_include

Visit(to_include, repo_name) == Append(to_include, repo_name)

\* repos->Get(repo_name, none) followed by Get("bindings", none) and
\* Map().Values()
BindingValues_None(map, repo_name) == <<>>

BindingValues(map, repo_name) ==
    IF repo_name \in DOMAIN map THEN map[repo_name].bindings ELSE <<>>

\* the traverse lambda (lines 425-447): the list of included names after
\* the call
RECURSIVE Traverse(_, _, _)
RECURSIVE TraverseValues(_, _, _, _)
Traverse(map, repo_name, to_include) ==
    IF InSeq(to_include, repo_name)
    THEN to_include
    ELSE TraverseValues(map, BindingValues(map, repo_name), 1,
                        Visit(to_include, repo_name))

TraverseValues(map, values, i, to_include) ==
    IF i > Len(values) THEN to_include
    ELSE TraverseValues(map, values, i + 1,
                        IF IsString(values[i])
                        THEN Traverse(map, values[i], to_include)
                        ELSE to_include)

\* lines 455-464: what one repository of to_include appends to to_setup
LayerValues_TargetOnly(map, repo) ==
    IF repo \in DOMAIN map
    THEN SelectSeq(<<map[repo].target_root>>, IsString)
    ELSE <<>>

LayerValues(map, repo) ==
    IF repo \in DOMAIN map
    THEN SelectSeq([l \in DOMAIN kAltDirs |-> map[repo][kAltDirs[l]]],
                   IsString)
    ELSE <<>>

RECURSIVE Overlays(_, _, _)
Overlays(map, to_include, i) ==
    IF i > Len(to_include) THEN <<>>
    ELSE LayerValues(map, to_include[i]) \o Overlays(map, to_include, i + 1)

EmptySetupRepos == [to_setup |-> <<>>, to_include |-> <<>>]

ReachableRepositories(r, main, setup_repos) ==
    LET cleared == [to_setup |-> Cleared(setup_repos.to_setup),
                    to_include |-> Cleared(setup_repos.to_include)]
    IN  IF ~r.isMap THEN cleared
        ELSE LET inc == Traverse(r.map, main, cleared.to_include)
             IN  [to_setup |-> inc \o Overlays(r.map, inc, 1),
                  to_include |-> inc]

\* repos->Map().Keys()
KeysOf(map) == [n \in DOMAIN map |-> n]

DefaultReachableRepositories_Append(r, setup_repos) ==
    IF r.isMap
    THEN [to_setup |-> setup_repos.to_setup \o KeysOf(r.map),
          to_include |-> setup_repos.to_include \o KeysOf(r.map)]
    ELSE setup_repos

DefaultReachableRepositories(r, setup_repos) ==
    IF r.isMap
    THEN [to_setup |-> KeysOf(r.map), to_include |-> KeysOf(r.map)]
    ELSE setup_repos

\* what the SetupRepos handed to a call holds: nothing, the result of the
\* same call, or something else
Holds(op, main) ==
    IF setup = EmptySetupRepos THEN "nothing"
    ELSE IF rstate.op = op /\ rstate.main = main THEN "own result"
    ELSE "other content"

\* MultiRepoFetch, line 518; the call may be repeated, on whatever the
\* SetupRepos holds
Default ==
    /\ setup' = DefaultReachableRepositories(repos, setup)
    /\ rstate' = [op |-> "default", main |-> NoValue,
                  on |-> Holds("default", NoValue)]
    /\ UNCHANGED repos
    /\ UNCHANGED <<fvars, mvars, gvars, cvars, lvars, nvars>>

\* MultiRepoFetch, line 527, with the main repository of this run; the call
\* may be repeated.  A main repository without entry is listed alone
\* whatever its name (lines 432-436): the smallest such name is followed
Reach(main) ==
    /\ \/ rstate.op = "default"
       \/ rstate.op = "reach" /\ rstate.main = main
    /\ main <= Len(repos.map) + 1
    /\ setup' = ReachableRepositories(repos, main, setup)
    /\ rstate' = [op |-> "reach", main |-> main, on |-> Holds("reach", main)]
    /\ UNCHANGED repos
    /\ UNCHANGED <<fvars, mvars, gvars, cvars, lvars, nvars>>

\* the configuration file as it is when the tool reads it: a further
\* repository, a further binding of a repository, an alternative root
Configurable ==
    /\ rstate.op = "none"
    /\ repos.isMap
    /\ EntryCount(repos.map, 1) < MaxEntries

ConfigRepository ==
    /\ Configurable
    /\ Len(repos.map) < MaxRepoNames
    /\ repos' = [repos EXCEPT !.map = Append(@, EmptyRepo)]
    /\ UNCHANGED <<setup, rstate>>
    /\ UNCHANGED <<fvars, mvars, gvars, cvars, lvars, nvars>>

ConfigBinding(n) ==
    /\ Configurable
    /\ n \in DOMAIN repos.map
    /\ \E v \in RepoValues(repos.map) :
          repos' = [repos EXCEPT !.map[n].bindings = Append(@, v)]
    /\ UNCHANGED <<setup, rstate>>
    /\ UNCHANGED <<fvars, mvars, gvars, cvars, lvars, nvars>>

ConfigRoot(n) ==
    /\ Configurable
    /\ n \in DOMAIN repos.map
    /\ \E l \in DOMAIN kAltDirs, v \in RepoValues(repos.map) :
          /\ repos.map[n][kAltDirs[l]] = NoValue
          /\ repos' = [repos EXCEPT !.map[n][kAltDirs[l]] = v]
    /\ UNCHANGED <<setup, rstate>>
    /\ UNCHANGED <<fvars, mvars, gvars, cvars, lvars, nvars>>

\* the "repositories" value of the configuration is a map, or something else
ReachInit ==
    /\ repos \in {[isMap |-> m, map |-> <<>>] : m \in BOOLEAN}
    /\ setup = EmptySetupRepos
    /\ rstate = [op |-> "none", main |-> NoValue, on |-> "nothing"]

ReachAtRest ==
    /\ repos = [isMap |-> FALSE, map |-> <<>>]
    /\ setup = EmptySetupRepos
    /\ rstate = [op |-> "none", main |-> NoValue, on |-> "nothing"]

(***************************************************************************)
(* GitCAS: ReadObject, ReadTree and ReadHeader on an object database       *)
(***************************************************************************)
MaxObjects == 2

MaxStored == 4

kOIDRawSize == 20

kOIDHexSize == 40

\* objects are numbered in the order in which they are first mentioned; the
\* id of object n is the byte n, kOIDRawSize times
ObjIds == 1..MaxObjects

RawId(n) == [i \in 1..kOIDRawSize |-> n]

\* characters of an id string: the hex digits 0..15, and one that is none
HexDigits == 0..15

NonHexChar == 16

\* ToHexString on raw bytes (hex_string.hpp): two digits per byte
ToHexString(raw) ==
    [i \in 1..(2 * Len(raw)) |->
        IF i % 2 = 1 THEN raw[(i + 1) \div 2] \div 16 ELSE raw[i \div 2] % 16]

\* FromHexString (hex_string.hpp): one byte per two digits
FromHexString(hex) ==
    [i \in 1..(Len(hex) \div 2) |-> 16 * hex[2 * i - 1] + hex[2 * i]]

\* the id strings handed to the read calls: the id of an object in hex or
\* raw encoding, cut short by one character, extended by one character, or
\* with a character that is no hex digit
IdForms ==
    {"hex", "raw", "hex short", "raw short", "hex long", "raw long", "hex bad"}

IsHexForm(form) == form \in {"hex", "hex short", "hex long", "hex bad"}

IdString(n, form) ==
    CASE form = "hex" -> ToHexString(RawId(n))
      [] form = "raw" -> RawId(n)
      [] form = "hex short" -> SubSeq(ToHexString(RawId(n)), 1, kOIDHexSize - 1)
      [] form = "raw short" -> SubSeq(RawId(n), 1, kOIDRawSize - 1)
      [] form = "hex long" -> Append(ToHexString(RawId(n)), 0)
      [] form = "raw long" -> Append(RawId(n), 0)
      [] form = "hex bad" ->
            [ToHexString(RawId(n)) EXCEPT ![kOIDHexSize] = NonHexChar]

\* the read calls of the model: every object by its well-formed ids, and the
\* other forms of the id of object 1
CasRequests ==
    {<<n, f>> : n \in ObjIds, f \in {"hex", "raw"}}
        \cup {<<1, f>> : f \in IdForms}

NoOid == <<>>

\* lines 29-34: an id shorter than the size of its encoding is rejected
TooShort(id, is_hex_id) ==
    Len(id) < (IF is_hex_id THEN kOIDHexSize ELSE kOIDRawSize)

\* GitObjectID (lines 27-54): git_oid_fromstr reads the first kOIDHexSize
\* characters and fails on one that is no hex digit, git_oid_fromraw copies
\* the first kOIDRawSize bytes; the git_oid is given by its raw bytes
GitObjectID(id, is_hex_id) ==
    IF TooShort(id, is_hex_id) THEN NoOid
    ELSE IF is_hex_id
    THEN IF \A i \in 1..kOIDHexSize : id[i] \in HexDigits
         THEN FromHexString(SubSeq(id, 1, kOIDHexSize))
         ELSE NoOid
    ELSE SubSeq(id, 1, kOIDRawSize)

\* ToRawString (lines 67-73)
ToRawString(oid) == FromHexString(ToHexString(oid))

\* git_filemode_t values, in octal
Modes == {"100644", "100755", "040000", "120000"}

NoType == "none"

\* lines 75-92
GitFileModeToObjectType_Lenient(mode) ==
    CASE mode = "100644" -> "File"
      [] mode = "100755" -> "Executable"
      [] mode = "040000" -> "Tree"
      [] OTHER -> "File"

GitFileModeToObjectType(mode) ==
    CASE mode = "100644" -> "File"
      [] mode = "100755" -> "Executable"
      [] mode = "040000" -> "Tree"
      [] OTHER -> NoType

\* lines 94-107
GitTypeToObjectType(kind) ==
    CASE kind = "blob" -> "File"
      [] kind = "tree" -> "Tree"
      [] OTHER -> NoType

IsTreeObject(type) == type = "Tree"

\* lines 109-122
ValidateEntries(entries) ==
    \A id \in DOMAIN entries :
        \/ \A i \in DOMAIN entries[id] : IsTreeObject(entries[id][i].type)
        \/ \A i \in DOMAIN entries[id] : ~IsTreeObject(entries[id][i].type)

NoObject == [kind |-> "none", entries |-> <<>>]

\* the ids of the objects, and what GitObjectID makes of the id strings of
\* the read calls
RawIds == [n \in ObjIds |-> RawId(n)]

RequestOids ==
    [r \in CasRequests |-> GitObjectID(IdString(r[1], r[2]), IsHexForm(r[2]))]

\* ToRawString(*git_tree_entry_id(entry)) (lines 143-144)
EntryRawIds == [n \in ObjIds |-> ToRawString(RawId(n))]

\* git_odb_read, git_odb_read_header, git_tree_lookup: the object with this id
Lookup(oid) ==
    IF \E n \in DOMAIN gitOdb : RawIds[n] = oid
    THEN gitOdb[CHOOSE n \in DOMAIN gitOdb : RawIds[n] = oid]
    ELSE NoObject

\* (*entries)[*raw_id].emplace_back(name, type) (line 147)
EmplaceBack(entries, raw_id, node) ==
    IF raw_id \in DOMAIN entries
    THEN [entries EXCEPT ![raw_id] = Append(@, node)]
    ELSE entries @@ (raw_id :> <<node>>)

\* flat_tree_walker (lines 136-152): the value returned to git_tree_walk and
\* the entries collected so far
flat_tree_walker(entry, entries) ==
    LET raw_id == EntryRawIds[entry.id]
        type == GitFileModeToObjectType(entry.mode)
    IN  IF type # NoType
        THEN [ret |-> 1,
              entries |-> EmplaceBack(entries, raw_id,
                                      [name |-> entry.name, type |-> type])]
        ELSE [ret |-> -1, entries |-> entries]

\* git_tree_walk in pre-order: the callback is called for every entry; a
\* negative value ends the walk with an error, a positive value skips the
\* subtree of the entry, zero descends into it
RECURSIVE WalkEntries(_, _, _, _)
WalkEntries(es, i, entries, depth) ==
    IF i > Len(es) THEN [ok |-> TRUE, entries |-> entries]
    ELSE LET r == flat_tree_walker(es[i], entries)
         IN  IF r.ret < 0 THEN [ok |-> FALSE, entries |-> r.entries]
             ELSE IF r.ret > 0 \/ es[i].mode # "040000"
             THEN WalkEntries(es, i + 1, r.entries, depth)
             ELSE LET subtree == Lookup(RawIds[es[i].id])
                  IN  IF subtree.kind # "tree" \/ depth = 0
                      THEN [ok |-> FALSE, entries |-> r.entries]
                      ELSE LET sub == WalkEntries(subtree.entries, 1,
                                                  r.entries, depth - 1)
                           IN  IF sub.ok
                               THEN WalkEntries(es, i + 1, sub.entries, depth)
                               ELSE sub

CasIdle ==
    [op |-> "none", obj |-> 0, form |-> "hex", kind |-> "none",
     payload |-> NoObject, entries |-> <<>>, size |-> 0, type |-> NoType,
     wrapped |-> TRUE]

Returned(op, n, form, kind) ==
    [CasIdle EXCEPT !.op = op, !.obj = n, !.form = form, !.kind = kind]

\* GitCAS::ReadObject (lines 192-221) on a handle that GitCAS::Open returned;
\* a read call leaves the database as it is, so one call per database is
\* followed
ReadObject(n, form) ==
    /\ cas.op = "none"
    /\ LET oid == RequestOids[<<n, form>>]
           obj == Lookup(oid)
       IN  cas' = IF oid = NoOid \/ obj = NoObject
                  THEN Returned("ReadObject", n, form, "nullopt")
                  ELSE [Returned("ReadObject", n, form, "value")
                            EXCEPT !.payload = obj]
    /\ UNCHANGED gitOdb
    /\ UNCHANGED <<fvars, mvars, gvars, rvars, ovars, lvars, nvars>>

\* GitCAS::ReadHeader (lines 272-300)
ReadHeader(n, form) ==
    /\ cas.op = "none"
    /\ LET oid == RequestOids[<<n, form>>]
           obj == Lookup(oid)
       IN  cas' = IF \/ oid = NoOid
                     \/ obj = NoObject
                     \/ GitTypeToObjectType(obj.kind) = NoType
                  THEN Returned("ReadHeader", n, form, "nullopt")
                  ELSE [Returned("ReadHeader", n, form, "value")
                            EXCEPT !.size = Len(obj.entries),
                                   !.type = GitTypeToObjectType(obj.kind)]
    /\ UNCHANGED gitOdb
    /\ UNCHANGED <<fvars, mvars, gvars, rvars, ovars, lvars, nvars>>

\* GitCAS::ReadTree (lines 223-270); git_repository_wrap_odb may fail, and
\* the check of ValidateEntries is part of audit builds only, where a failed
\* check ends the program
ReadTree(n, form) ==
    /\ cas.op = "none"
    /\ \E wrap_ok \in BOOLEAN, audit \in BOOLEAN :
         LET oid == RequestOids[<<n, form>>]
             tree == Lookup(oid)
             walk == WalkEntries(tree.entries, 1, <<>>, Len(gitOdb))
         IN  cas' = IF oid = NoOid
                    THEN Returned("ReadTree", n, form, "nullopt")
                    ELSE IF ~wrap_ok
                    THEN [Returned("ReadTree", n, form, "nullopt")
                              EXCEPT !.wrapped = FALSE]
                    ELSE IF tree.kind # "tree" \/ ~walk.ok
                    THEN Returned("ReadTree", n, form, "nullopt")
                    ELSE IF audit /\ ~ValidateEntries(walk.entries)
                    THEN Returned("ReadTree", n, form, "terminated")
                    ELSE [Returned("ReadTree", n, form, "value")
                              EXCEPT !.entries = walk.entries]
    /\ UNCHANGED gitOdb
    /\ UNCHANGED <<fvars, mvars, gvars, rvars, ovars, lvars, nvars>>

\* the number of objects and tree entries of the database
RECURSIVE StoredCount(_, _)
StoredCount(db, n) ==
    IF n > Len(db) THEN 0
    ELSE 1 + Len(db[n].entries) + StoredCount(db, n + 1)

\* the objects mentioned so far: the stored ones and the ids of tree entries
MentionedObjects(db) ==
    Max({Len(db)}
        \cup UNION {{db[n].entries[i].id : i \in DOMAIN db[n].entries} :
                      n \in DOMAIN db})

\* the database as GitCAS::OpenODB finds it (lines 302-331): what was written
\* to the repository before the handle is used, a blob, a tree, an entry of
\* a tree
Writable ==
    /\ cas.op = "none"
    /\ StoredCount(gitOdb, 1) < MaxStored

WriteObject ==
    /\ Writable
    /\ Len(gitOdb) < MaxObjects
    /\ \E kind \in {"blob", "tree"} :
          gitOdb' = Append(gitOdb, [kind |-> kind, entries |-> <<>>])
    /\ UNCHANGED cas
    /\ UNCHANGED <<fvars, mvars, gvars, rvars, ovars, lvars, nvars>>

WriteEntry(n) ==
    /\ Writable
    /\ n \in DOMAIN gitOdb
    /\ gitOdb[n].kind = "tree"
    /\ \E mode \in Modes,
          id \in 1..Min({MaxObjects, MentionedObjects(gitOdb) + 1}) :
          gitOdb' = [gitOdb EXCEPT ![n].entries =
                     Append(@, [name |-> <<n, Len(@) + 1>>, mode |-> mode,
                                id |-> id])]
    /\ UNCHANGED cas
    /\ UNCHANGED <<fvars, mvars, gvars, rvars, ovars, lvars, nvars>>

(***************************************************************************)
(* GitCAS::Open called from several threads.  Each call constructs its own *)
(* GitCAS and runs OpenODB on its path; repo_mutex is the function-static  *)
(* mutex of OpenODB, shared by all calls.  A step is one library call.     *)
(***************************************************************************)
MaxThreads == 2

Threads == 1..MaxThreads

\* what git_repository_open and git_repository_odb find at a path: a
\* repository, a repository whose object database cannot be obtained (odb_
\* stays null), no repository
PathKinds == {"repository", "no odb", "no repository"}

OpenIdle ==
    [pc |-> "idle", path |-> "none", initialized_ |-> FALSE, repo |-> FALSE,
     odb_ |-> FALSE, handle |-> "none"]

\* lines 160 and 173-179: make_shared<GitCAS>() runs the constructor, which
\* sets initialized_ from git_libgit2_init(); the path is the argument of Open
GitCAS_Construct(t) ==
    /\ opens[t].pc = "idle"
    /\ \E path \in PathKinds, init \in BOOLEAN :
          opens' = [opens EXCEPT ![t] =
                    [@ EXCEPT !.pc = "OpenODB", !.path = path,
                              !.initialized_ = init]]
    /\ UNCHANGED repo_mutex
    /\ UNCHANGED <<fvars, mvars, gvars, rvars, gitOdb, cas, lvars, nvars>>

\* lines 307-309 with the lock taken by whoever reaches it
OpenODB_Lock_Unguarded(t) ==
    /\ opens[t].pc = "OpenODB"
    /\ IF opens[t].initialized_
       THEN /\ repo_mutex' = repo_mutex \cup {t}
            /\ opens' = [opens EXCEPT ![t].pc = "open"]
       ELSE /\ opens' = [opens EXCEPT ![t].pc = "return"]
            /\ UNCHANGED repo_mutex
    /\ UNCHANGED <<fvars, mvars, gvars, rvars, gitOdb, cas, lvars, nvars>>

\* lines 307-309: `if (initialized_)` and std::unique_lock lock{repo_mutex},
\* which blocks while another thread holds the mutex
OpenODB_Lock(t) ==
    /\ opens[t].pc = "OpenODB"
    /\ IF opens[t].initialized_
       THEN /\ repo_mutex = {}
            /\ repo_mutex' = {t}
            /\ opens' = [opens EXCEPT ![t].pc = "open"]
       ELSE /\ opens' = [opens EXCEPT ![t].pc = "return"]
            /\ UNCHANGED repo_mutex
    /\ UNCHANGED <<fvars, mvars, gvars, rvars, gitOdb, cas, lvars, nvars>>

\* lines 310-317: on failure `return false` leaves the scope of the lock, whose
\* destructor unlocks the mutex, and Open returns nullptr (line 170)
git_repository_open(t) ==
    /\ opens[t].pc = "open"
    /\ IF opens[t].path = "no repository"
       THEN /\ opens' = [opens EXCEPT ![t] =
                         [@ EXCEPT !.pc = "done", !.handle = "nullptr"]]
            /\ repo_mutex' = repo_mutex \ {t}
       ELSE /\ opens' = [opens EXCEPT ![t] =
                         [@ EXCEPT !.pc = "odb", !.repo = TRUE]]
            /\ UNCHANGED repo_mutex
    /\ UNCHANGED <<fvars, mvars, gvars, rvars, gitOdb, cas, lvars, nvars>>

\* line 318
git_repository_odb(t) ==
    /\ opens[t].pc = "odb"
    /\ opens' = [opens EXCEPT ![t] =
                 [@ EXCEPT !.pc = "free", !.odb_ = (opens[t].path = "repository")]]
    /\ UNCHANGED repo_mutex
    /\ UNCHANGED <<fvars, mvars, gvars, rvars, gitOdb, cas, lvars, nvars>>

\* line 319
git_repository_free(t) ==
    /\ opens[t].pc = "free"
    /\ opens' = [opens EXCEPT ![t] = [@ EXCEPT !.pc = "unlock", !.repo = FALSE]]
    /\ UNCHANGED repo_mutex
    /\ UNCHANGED <<fvars, mvars, gvars, rvars, gitOdb, cas, lvars, nvars>>

\* line 320: the end of the scope of the lock
OpenODB_Unlock(t) ==
    /\ opens[t].pc = "unlock"
    /\ opens' = [opens EXCEPT ![t].pc = "return"]
    /\ repo_mutex' = repo_mutex \ {t}
    /\ UNCHANGED <<fvars, mvars, gvars, rvars, gitOdb, cas, lvars, nvars>>

\* lines 321-329 and 161-170: OpenODB is true if initialized_ and odb_ is not
\* null; Open returns the GitCAS then, and nullptr otherwise
OpenODB_Return(t) ==
    /\ opens[t].pc = "return"
    /\ opens' = [opens EXCEPT ![t] =
                 [@ EXCEPT !.pc = "done",
                           !.handle = IF opens[t].initialized_ /\ opens[t].odb_
                                      THEN "cas" ELSE "nullptr"]]
    /\ UNCHANGED repo_mutex
    /\ UNCHANGED <<fvars, mvars, gvars, rvars, gitOdb, cas, lvars, nvars>>

OpenInit ==
    /\ opens = [t \in Threads |-> OpenIdle]
    /\ repo_mutex = {}

OpenAtRest ==
    /\ opens = [t \in Threads |-> OpenIdle]
    /\ repo_mutex = {}

CasInit ==
    /\ gitOdb = <<>>
    /\ cas = CasIdle

CasAtRest == CasInit /\ OpenAtRest

(***************************************************************************)
(* Run-control file: ReadLocation and ReadJustMRRC.  The rc file has been  *)
(* read as a JSON object; a location is given by its root and by whether   *)
(* the path it resolves to exists as the file or directory looked for.     *)
(***************************************************************************)
MaxLocations == 2

kLocationTypes == {"workspace", "home", "system"}

\* a location that is null (the key is absent), one that lacks "path" or
\* "root" or has an unknown root, and the well-formed ones
LocationRoots == {"null", "malformed"} \cup kLocationTypes

NullLocation == [root |-> "null", exists |-> FALSE]

Locations ==
    {NullLocation, [root |-> "malformed", exists |-> FALSE]}
        \cup [root : kLocationTypes, exists : BOOLEAN]

RcFields == {"local build root", "checkout locations", "just"}

kDefaultConfigLocations == <<"workspace", "workspace", "home", "system">>

\* ReadLocation (lines 205-246): the pair of paths, no result with a warning
\* for a workspace location outside of a workspace, no result for null, or
\* the end of the program
ReadLocation_Fatal(location, ws_root) ==
    IF location.root = "null" THEN "nullopt"
    ELSE IF location.root \notin kLocationTypes THEN "exit"
    ELSE IF location.root = "workspace" /\ ~ws_root THEN "exit"
    ELSE "paths"

ReadLocation(location, ws_root) ==
    IF location.root = "null" THEN "nullopt"
    ELSE IF location.root \notin kLocationTypes THEN "exit"
    ELSE IF location.root = "workspace" /\ ~ws_root THEN "ignored"
    ELSE "paths"

\* "just args": per command of just the list of strings of the rc file, if
\* the command is named there
JustCommands == {"build", "install"}

JustArgValues == {"-J", "8"}

NoJustArgs == [present |-> FALSE, args |-> <<>>]

\* lines 346-354: the vector is resized to the length of the list, then
\* every string of the list is appended to it
JustArgsVector(args_list) ==
    [i \in 1..Len(args_list) |-> ""] \o args_list

\* lines 341-357
ReadJustArgs(just_args) ==
    [c \in JustCommands |->
        IF just_args[c].present
        THEN [present |-> TRUE, args |-> JustArgsVector(just_args[c].args)]
        ELSE NoJustArgs]

RcEmpty ==
    [ws_root |-> FALSE, fields |-> [f \in RcFields |-> NullLocation],
     distdirs |-> <<>>, hasLookup |-> FALSE, lookup |-> <<>>,
     just_args |-> [c \in JustCommands |-> NoJustArgs], given |-> {}]

\* main before it has gone on from ReadJustMRRC
MainIdle ==
    [st |-> "none", exit |-> "none", explicit |-> 0,
     repository_config |-> FALSE, config_file |-> [from |-> "none", index |-> 0],
     values |-> [f \in RcFields |-> "unset"], distdirs |-> <<>>]

RcIdle ==
    [st |-> "none", exit |-> "none", log |-> <<>>, set |-> {},
     distdirs |-> <<>>, config |-> <<>>, setup_root |-> <<>>,
     just_args |-> [c \in JustCommands |-> NoJustArgs], main |-> MainIdle]

\* the calls of ReadLocation that ReadJustMRRC makes if none ends it, in
\* their order (lines 290-379); `given` are the options set on the command
\* line (r.given), fs tells which of the default configuration files exist
FieldCall_Always(r, given, f) ==
    <<[field |-> f, index |-> 1, location |-> r.fields[f]]>>

\* lines 290, 300 and 332: `if (not clargs->...)`
FieldCall(r, given, f) ==
    IF f \in given THEN <<>>
    ELSE <<[field |-> f, index |-> 1, location |-> r.fields[f]]>>

ListCalls(f, list) ==
    [i \in DOMAIN list |-> [field |-> f, index |-> i, location |-> list[i]]]

RcFieldCalls(r, given) ==
    FieldCall(r, given, "local build root")
        \o FieldCall(r, given, "checkout locations")
        \o ListCalls("distdirs", r.distdirs)
        \o FieldCall(r, given, "just")

RcLookupCalls(r, fs) ==
    IF r.hasLookup
    THEN ListCalls("config lookup order", r.lookup)
    ELSE ListCalls("config lookup order",
                   [i \in DOMAIN kDefaultConfigLocations |->
                       [root |-> kDefaultConfigLocations[i],
                        exists |-> fs[i]]])

\* any path that a location resolves to counts as the configuration file
IsConfigFile_Any(location) == TRUE

\* lines 365 and 376: FileSystemManager::IsFile(paths->first)
IsConfigFile(location) == location.exists

\* what ReadJustMRRC does with the result of one call
RcStep(call, ws_root, run) ==
    LET res == ReadLocation(call.location, ws_root)
        Logged(event) ==
            [run EXCEPT !.log = Append(@, [field |-> call.field,
                                           index |-> call.index,
                                           event |-> event])]
    IN  CASE res = "nullopt" -> Logged("nullopt")
          [] res = "ignored" -> Logged("Warning: Not in workspace root")
          [] res = "exit" ->
                [Logged("Error: Malformed location object")
                    EXCEPT !.exit = "kExitConfigError"]
          [] res = "paths" ->
                CASE call.field \in {"local build root", "just"} ->
                        [Logged("paths") EXCEPT !.set = @ \cup {call.field}]
                  [] call.field = "checkout locations" ->
                        IF call.location.exists
                        THEN [Logged("paths") EXCEPT !.set = @ \cup {call.field}]
                        ELSE [Logged("Error: Cannot find checkout locations file")
                                 EXCEPT !.exit = "kExitConfigError"]
                  [] call.field = "distdirs" ->
                        IF call.location.exists
                        THEN [Logged("paths")
                                 EXCEPT !.distdirs = Append(@, call.index)]
                        ELSE Logged("Warning: Ignoring non-existing distdir")
                  [] call.field = "config lookup order" ->
                        IF IsConfigFile(call.location)
                        THEN [Logged("paths")
                                 EXCEPT !.config = <<call.index>>,
                                        !.setup_root = <<call.index>>]
                        ELSE Logged("paths, no file")

\* the calls are made until one ends the program or a configuration file is
\* found and returned
RECURSIVE RcRunFrom(_, _, _, _)
RcRunFrom(cs, i, ws_root, run) ==
    IF i > Len(cs) \/ run.exit # "none" \/ run.config # <<>> THEN run
    ELSE RcRunFrom(cs, i + 1, ws_root, RcStep(cs[i], ws_root, run))

\* ReadJustMRRC (lines 250-382) from the point where the rc file has been
\* read (line 289), on an rc file whose "just args" are lists of strings:
\* the locations up to "just", then "just args", then the lookup
ReadJustMRRC ==
    /\ rcRun.st = "none"
    /\ \E fs \in [DOMAIN kDefaultConfigLocations -> BOOLEAN] :
          LET fields == RcRunFrom(RcFieldCalls(rc, rc.given), 1, rc.ws_root,
                                  RcIdle)
              args == IF fields.exit # "none" THEN fields
                      ELSE [fields EXCEPT
                              !.just_args = ReadJustArgs(rc.just_args)]
              run == RcRunFrom(RcLookupCalls(rc, fs), 1, rc.ws_root, args)
          IN  rcRun' = [run EXCEPT !.st = IF run.exit = "none"
                                          THEN "returned" ELSE "exited"]
    /\ UNCHANGED rc
    /\ UNCHANGED <<fvars, mvars, gvars, rvars, cvars, nvars>>

\* explicitly given distdirs on the command line
MaxExplicit == 1

\* the state of the checkout locations file that main reads: the default
\* one is absent, or the file in use parses, or it does not
CheckoutFiles == {"no default", "parses", "unparsable"}

\* lines 751-769: the defaults for what neither the command line nor the rc
\* file has set
DefaultedValue(run, f, checkout) ==
    IF f \in rc.given THEN "command line"
    ELSE IF f \in run.set THEN "rc"
    ELSE IF f = "checkout locations" /\ checkout = "no default" THEN "unset"
    ELSE "default"

DefaultedDistdirs(distdirs) ==
    IF distdirs = <<>> THEN <<[from |-> "default", index |-> 0]>>
    ELSE [i \in DOMAIN distdirs |-> [from |-> "rc", index |-> distdirs[i]]]

\* main, lines 737-794, after ReadJustMRRC has returned: the configuration
\* file, the defaults, the checkout locations file, the explicit distdirs
MainDefaults ==
    /\ rcRun.st = "returned"
    /\ rcRun.main.st = "none"
    /\ \E repository_config \in BOOLEAN, explicit \in 0..MaxExplicit,
          checkout \in CheckoutFiles :
          LET config_file ==
                  IF repository_config
                  THEN [from |-> "command line", index |-> 0]
                  ELSE IF rcRun.config # <<>>
                  THEN [from |-> "rc", index |-> rcRun.config[1]]
                  ELSE [from |-> "none", index |-> 0]
              values == [f \in RcFields |->
                            DefaultedValue(rcRun, f, checkout)]
              defaulted == DefaultedDistdirs(rcRun.distdirs)
              m == [MainIdle EXCEPT !.explicit = explicit,
                                    !.repository_config = repository_config,
                                    !.config_file = config_file]
          IN  rcRun' = [rcRun EXCEPT !.main =
                  IF config_file.from = "none"
                  THEN [m EXCEPT !.st = "exited",
                                 !.exit = "kExitConfigError"]
                  ELSE IF /\ values["checkout locations"] # "unset"
                          /\ checkout = "unparsable"
                  THEN [m EXCEPT !.st = "exited",
                                 !.exit = "kExitConfigError",
                                 !.values = values, !.distdirs = defaulted]
                  ELSE [m EXCEPT !.st = "done", !.values = values,
                                 !.distdirs = defaulted \o
                                     [i \in 1..explicit |->
                                         [from |-> "explicit", index |-> i]]]]
    /\ UNCHANGED rc
    /\ UNCHANGED <<fvars, mvars, gvars, rvars, cvars, nvars>>

\* the rc file and the command line: the number of locations, commands,
\* arguments and options written
RcCount(r) ==
    Cardinality({f \in RcFields : r.fields[f] # NullLocation})
        + Cardinality(r.given)
        + Len(r.distdirs) + Len(r.lookup)
        + Cardinality({c \in JustCommands : r.just_args[c].present})
        + Len(r.just_args["build"].args) + Len(r.just_args["install"].args)

RcWritable ==
    /\ rcRun.st = "none"
    /\ RcCount(rc) < MaxLocations

RcField(f) ==
    /\ RcWritable
    /\ rc.fields[f] = NullLocation
    /\ \E l \in Locations \ {NullLocation} :
          /\ f # "checkout locations" => ~l.exists
          /\ rc' = [rc EXCEPT !.fields[f] = l]
    /\ UNCHANGED rcRun
    /\ UNCHANGED <<fvars, mvars, gvars, rvars, cvars, nvars>>

RcDistdir ==
    /\ RcWritable
    /\ \E l \in Locations : rc' = [rc EXCEPT !.distdirs = Append(@, l)]
    /\ UNCHANGED rcRun
    /\ UNCHANGED <<fvars, mvars, gvars, rvars, cvars, nvars>>

RcLookup ==
    /\ RcWritable
    /\ \E l \in Locations :
          rc' = [rc EXCEPT !.hasLookup = TRUE, !.lookup = Append(@, l)]
    /\ UNCHANGED rcRun
    /\ UNCHANGED <<fvars, mvars, gvars, rvars, cvars, nvars>>

\* an option of the command line: --local-build-root, --checkout-locations
\* or --just
RcGiven(f) ==
    /\ RcWritable
    /\ f \notin rc.given
    /\ rc' = [rc EXCEPT !.given = @ \cup {f}]
    /\ UNCHANGED rcRun
    /\ UNCHANGED <<fvars, mvars, gvars, rvars, cvars, nvars>>

RcJustCommand(c) ==
    /\ RcWritable
    /\ ~rc.just_args[c].present
    /\ rc' = [rc EXCEPT !.just_args[c].present = TRUE]
    /\ UNCHANGED rcRun
    /\ UNCHANGED <<fvars, mvars, gvars, rvars, cvars, nvars>>

RcJustArg(c) ==
    /\ RcWritable
    /\ rc.just_args[c].present
    /\ \E a \in JustArgValues :
          rc' = [rc EXCEPT !.just_args[c].args = Append(@, a)]
    /\ UNCHANGED rcRun
    /\ UNCHANGED <<fvars, mvars, gvars, rvars, cvars, nvars>>

\* "config lookup order" is given as the empty list
RcLookupEmpty ==
    /\ rcRun.st = "none"
    /\ ~rc.hasLookup
    /\ rc' = [rc EXCEPT !.hasLookup = TRUE]
    /\ UNCHANGED rcRun
    /\ UNCHANGED <<fvars, mvars, gvars, rvars, cvars, nvars>>

RcInit ==
    /\ rc \in {[RcEmpty EXCEPT !.ws_root = w] : w \in BOOLEAN}
    /\ rcRun = RcIdle

RcAtRest ==
    /\ rc = RcEmpty
    /\ rcRun = RcIdle

(***************************************************************************)
(* The fetch subcommand: the choice of the main repository in main and     *)
(* MultiRepoFetch up to the start of the fetch.  Repository names are      *)
(* numbers in their lexicographic order; the described repositories are    *)
(* the names 1..Len(map), any other name has no entry.                     *)
(***************************************************************************)
MaxFetchRepos == 2

MaxFetchEntries == 3

FetchNames == 1..(MaxFetchRepos + 1)

\* the "repository" field of an entry: absent, the name of another entry, or
\* a description with its "type" and, for an archive, "content" and "fetch"
DescriptionKinds ==
    {"file", "type missing", "type not string", "type unknown", "archive",
     "content missing", "content not string", "fetch missing",
     "fetch not string"}

Description(kind) == [kind |-> kind, ref |-> 0]

Indirection(n) == [kind |-> "indirection", ref |-> n]

NoRepository == [kind |-> "absent", ref |-> 0]

RepositoryFields ==
    {NoRepository} \cup {Indirection(n) : n \in FetchNames}
        \cup {Description(k) : k \in DescriptionKinds}

FetchedRepo == [bindings |-> <<>>, target_root |-> NoValue,
                rule_root |-> NoValue, expression_root |-> NoValue,
                repository |-> Description("file")]

\* ResolveRepo: follows the indirections from a "repository" value to a
\* description; a name met twice is a cycle, which gives no description
NoDescription == [kind |-> "cycle", ref |-> 0]

RECURSIVE ResolveRepo(_, _, _)
ResolveRepo(repo, map, seen) ==
    IF repo.kind # "indirection" THEN repo
    ELSE IF repo.ref \in seen THEN NoDescription
    ELSE ResolveRepo(map[repo.ref].repository, map, seen \cup {repo.ref})

\* ResolveRepo is followed on indirections that name an entry with a
\* "repository" field
Resolvable(map) ==
    \A n \in DOMAIN map :
        map[n].repository.kind = "indirection" =>
            /\ map[n].repository.ref \in DOMAIN map
            /\ map[map[n].repository.ref].repository # NoRepository

\* std::min_element (lines 522-523)
MinElement_Max(list) == Max(Range(list))

MinElement(list) == Min(Range(list))

\* main, lines 805-815: the main repository of the setup options replaces
\* the one of the common options
SelectMain(common_main, sub_main) ==
    IF sub_main # NoValue THEN sub_main ELSE common_main

\* a check that passes over every repository that is no well-formed archive
CheckRepo_Lenient(map, repo_name) ==
    IF /\ repo_name \in DOMAIN map
       /\ map[repo_name].repository # NoRepository
       /\ ResolveRepo(map[repo_name].repository, map, {}).kind = "archive"
    THEN "fetch"
    ELSE "skip"

\* lines 584-693 for one repository of to_include: the error that ends the
\* run, "fetch" for an archive, "skip" for any other repository
CheckRepo(map, repo_name) ==
    IF repo_name \notin DOMAIN map
    THEN "Config: missing config entry for repository"
    ELSE IF map[repo_name].repository = NoRepository
    THEN "Config: missing repository description"
    ELSE LET resolved == ResolveRepo(map[repo_name].repository, map, {})
         IN  CASE resolved = NoDescription ->
                    "Config: found cyclic dependency for repository"
               [] resolved.kind = "type missing" ->
                    "Config: mandatory key \"type\" missing"
               [] resolved.kind = "type not string" ->
                    "Config: unsupported value for key 'type'"
               [] resolved.kind = "type unknown" -> "Unknown repository type"
               [] resolved.kind = "content missing" ->
                    "Mandatory field \"content\" is missing"
               [] resolved.kind = "content not string" ->
                    "Unsupported value for mandatory field 'content'"
               [] resolved.kind = "fetch missing" ->
                    "Mandatory field \"fetch\" is missing"
               [] resolved.kind = "fetch not string" ->
                    "Unsupported value for mandatory field 'fetch'"
               [] resolved.kind = "archive" -> "fetch"
               [] OTHER -> "skip"

\* the loop of lines 584-693: the first error, if any, and the repositories
\* to fetch
RECURSIVE GatherRepos(_, _, _, _)
GatherRepos(map, to_include, i, repos_to_fetch) ==
    IF i > Len(to_include)
    THEN [error |-> "none", repos_to_fetch |-> repos_to_fetch]
    ELSE LET c == CheckRepo(map, to_include[i])
         IN  CASE c = "fetch" ->
                    GatherRepos(map, to_include, i + 1,
                                Append(repos_to_fetch, to_include[i]))
               [] c = "skip" ->
                    GatherRepos(map, to_include, i + 1, repos_to_fetch)
               [] OTHER -> [error |-> c, repos_to_fetch |-> repos_to_fetch]

\* lines 536-541 look into the description of main without a test: main may
\* be unset, have no entry, or have a "repository" that is no map
WarnBlockSafe(map, main) ==
    /\ main \in DOMAIN map
    /\ map[main].repository.kind \notin {"absent", "indirection"}

FetchEmpty == [hasKey |-> TRUE, map |-> <<>>]

FetchIdle ==
    [st |-> "none", common_main |-> NoValue, sub_main |-> NoValue,
     sub_all |-> FALSE, env |-> "ok", main |-> NoValue, to_include |-> <<>>,
     error |-> "none", exit |-> "none", started |-> FALSE,
     repos_to_fetch |-> <<>>, cmd |-> "none", emitted |-> "none"]

FetchEnvs == {"ok", "no fetch dir", "create fails", "in workspace"}

\* the run from line 805 of main to the return of MultiRepoFetch
FetchOutcome(run, env, unsafe_throws, fetch_failed) ==
    LET map == fetchIn.map
        r == [isMap |-> TRUE, map |-> map]
        Exit(rr, error, code) ==
            [rr EXCEPT !.st = "returned", !.error = error, !.exit = code]
        option == SelectMain(run.common_main, run.sub_main)
        default_repos == DefaultReachableRepositories(r, EmptySetupRepos)
        main == IF option = NoValue /\ default_repos.to_include # <<>>
                THEN MinElement(default_repos.to_include)
                ELSE option
        fetch_repos == IF run.sub_all \/ main = NoValue THEN default_repos
                       ELSE ReachableRepositories(r, main, default_repos)
        chosen == IF run.sub_all THEN run
                  ELSE [run EXCEPT !.main = main]
        listed == [chosen EXCEPT !.to_include = fetch_repos.to_include]
        gathered == GatherRepos(map, fetch_repos.to_include, 1, <<>>)
    IN  IF env = "no fetch dir"
        THEN Exit(run, "No directory found to fetch to", "kExitFetchError")
        ELSE IF ~fetchIn.hasKey
        THEN Exit(run, "Config: mandatory key \"repositories\" missing",
                  "kExitFetchError")
        ELSE IF /\ ~run.sub_all
                /\ env = "in workspace"
                /\ ~WarnBlockSafe(map, main)
                /\ unsafe_throws
        THEN Exit(listed, "Caught exception", "kExitGenericFailure")
        ELSE IF env = "create fails"
        THEN Exit(listed, "Failed to create fetch directory",
                  "kExitFetchError")
        ELSE IF gathered.error # "none"
        THEN Exit(listed, gathered.error, "kExitFetchError")
        ELSE [listed EXCEPT !.st = "returned", !.started = TRUE,
                            !.repos_to_fetch = gathered.repos_to_fetch,
                            !.exit = IF fetch_failed THEN "kExitFetchError"
                                     ELSE "kExitSuccess"]

\* the fetch of an empty list of repositories does not fail (lines 706-726)
MultiRepoFetch ==
    /\ fetchRun.st = "none"
    /\ Resolvable(fetchIn.map)
    /\ \E common_main \in {NoValue} \cup FetchNames,
          sub_main \in {NoValue} \cup FetchNames,
          sub_all \in BOOLEAN, env \in FetchEnvs,
          unsafe_throws \in BOOLEAN, fetch_failed \in BOOLEAN :
          LET run == [FetchIdle EXCEPT !.common_main = common_main,
                                       !.sub_main = sub_main,
                                       !.sub_all = sub_all, !.env = env,
                                       !.cmd = "kFetch"]
              out == FetchOutcome(run, env, unsafe_throws, fetch_failed)
          IN  /\ fetch_failed => out.repos_to_fetch # <<>>
              /\ fetchRun' = out
    /\ UNCHANGED fetchIn
    /\ UNCHANGED <<fvars, mvars, gvars, rvars, cvars, lvars>>

\* the subcommands main does not hand to MultiRepoFetch
OtherSubCommands ==
    {"kJustDo", "kJustSubCmd", "kSetup", "kSetupEnv", "kUpdate", "kUnknown"}

\* main, lines 805-838, for these subcommands: the main repository is
\* selected, then main returns; nothing is read from the configuration and
\* no configuration is written (`emitted` stays as it is)
MainReturns(cmd) ==
    /\ fetchRun.st = "none"
    /\ \E common_main \in {NoValue} \cup FetchNames,
          sub_main \in {NoValue} \cup FetchNames :
          fetchRun' = [FetchIdle EXCEPT
                         !.st = "returned", !.cmd = cmd,
                         !.main = SelectMain(common_main, sub_main),
                         !.error = IF cmd = "kUnknown"
                                   THEN "Unknown subcommand provided."
                                   ELSE "none",
                         !.exit = IF cmd = "kUnknown"
                                  THEN "kExitUnknownCommand"
                                  ELSE "kExitSuccess"]
    /\ UNCHANGED fetchIn
    /\ UNCHANGED <<fvars, mvars, gvars, rvars, cvars, lvars>>

\* the repository configuration as ReadConfiguration returns it: without
\* "repositories", or with repositories, their bindings and "repository"
\* fields
RECURSIVE FetchEntryCount(_, _)
FetchEntryCount(map, n) ==
    IF n > Len(map) THEN 0
    ELSE 1 + Len(map[n].bindings)
           + (IF map[n].repository = Description("file") THEN 0 ELSE 1)
           + FetchEntryCount(map, n + 1)

FetchWritable ==
    /\ fetchRun.st = "none"
    /\ fetchIn.hasKey
    /\ FetchEntryCount(fetchIn.map, 1) < MaxFetchEntries

FetchRepository ==
    /\ FetchWritable
    /\ Len(fetchIn.map) < MaxFetchRepos
    /\ fetchIn' = [fetchIn EXCEPT !.map = Append(@, FetchedRepo)]
    /\ UNCHANGED fetchRun
    /\ UNCHANGED <<fvars, mvars, gvars, rvars, cvars, lvars>>

FetchBinding(n) ==
    /\ FetchWritable
    /\ n \in DOMAIN fetchIn.map
    /\ \E v \in FetchNames :
          fetchIn' = [fetchIn EXCEPT !.map[n].bindings = Append(@, v)]
    /\ UNCHANGED fetchRun
    /\ UNCHANGED <<fvars, mvars, gvars, rvars, cvars, lvars>>

FetchDescription(n) ==
    /\ FetchWritable
    /\ n \in DOMAIN fetchIn.map
    /\ fetchIn.map[n].repository = Description("file")
    /\ \E v \in RepositoryFields \ {Description("file")} :
          fetchIn' = [fetchIn EXCEPT !.map[n].repository = v]
    /\ UNCHANGED fetchRun
    /\ UNCHANGED <<fvars, mvars, gvars, rvars, cvars, lvars>>

RunInit ==
    /\ fetchIn \in {[FetchEmpty EXCEPT !.hasKey = k] : k \in BOOLEAN}
    /\ fetchRun = FetchIdle

RunAtRest ==
    /\ fetchIn = FetchEmpty
    /\ fetchRun = FetchIdle

(***************************************************************************)
(* Async map: ConsumeAfterKeysReady(ts, keys, consumer, logger).  An entry *)
(* is absent, pending, ready (with its value) or failed; an entry that is  *)
(* ready or failed never changes.                                          *)
(***************************************************************************)
MapKeys == 1..MaxMapKeys

Requests == 1..MaxRequests

\* the key lists of at most n keys a request may carry (the same key may occur
\* several times)
KeyLists ==
    [n \in 0..MaxRequested |-> UNION {[1..m -> MapKeys] : m \in 0..n}]

RECURSIVE SumLen(_)
SumLen(R) ==
    IF R = {} THEN 0
    ELSE LET r == CHOOSE x \in R : TRUE
         IN  Len(req[r].keys) + SumLen(R \ {r})

\* keys are numbered in the order in which they are requested for the first
\* time
FirstUseOrdered(ks) ==
    \A i \in DOMAIN ks :
        IF ks[i] - 1 \in MapKeys
        THEN \/ cell[ks[i] - 1].st # "absent"
             \/ \E j \in 1..(i - 1) : ks[j] = ks[i] - 1
        ELSE TRUE

NoRequest ==
    [st |-> "none", keys |-> <<>>, got |-> <<>>, runs |-> 0, errs |-> 0,
     kind |-> "none", warned |-> FALSE]

\* a key is queued for computation when it is requested for the first time
NeedsCompute_Unsettled(st) == st \in {"absent", "pending"}

NeedsCompute(st) == st = "absent"

EnsureValuePresent(m, k) ==
    IF NeedsCompute(m.cell[k].st)
    THEN [cell |-> [m.cell EXCEPT ![k] = [st |-> "pending", val |-> FALSE]],
          tasks |-> [m.tasks EXCEPT ![k] = @ + 1]]
    ELSE m

\* the keys of a request are taken up one after the other
RECURSIVE ScheduleKeys(_, _)
ScheduleKeys(m, ks) ==
    IF ks = <<>> THEN m
    ELSE ScheduleKeys(EnsureValuePresent(m, Head(ks)), Tail(ks))

ValuesOf(ks) == [i \in 1..Len(ks) |-> cell[ks[i]].val]

\* the success continuation is due when every requested key is ready
ConsumerDue_Any(ks) == \E i \in 1..Len(ks) : cell[ks[i]].st = "ready"

ConsumerDue(ks) == \A i \in 1..Len(ks) : cell[ks[i]].st = "ready"

\* the error continuation is due when a requested key has failed
ErrorDue(ks) == \E i \in 1..Len(ks) : cell[ks[i]].st = "failed"

\* the first request is the one of the driver (part_001 line 703,
\* describe.cpp lines 120 and 163)
IsDriver(r) == r = Min(Requests)

\* the driver that issues a request: MultiRepoFetch asks for the list
\* repos_to_fetch (part_001 line 705), DescribeTarget and
\* DescribeUserDefinedRule ask for one key (describe.cpp lines 122 and 165)
DriverKinds(r, ks) ==
    IF ~IsDriver(r) THEN {"none"}
    ELSE IF Len(ks) = 1 THEN {"MultiRepoFetch", "Describe"}
    ELSE {"MultiRepoFetch"}

\* part_001 lines 706-714: `if (not *val) { failed = true; break; }`;
\* describe.cpp lines 123 and 166: the consumer stores values[0]
DriverConsumer(kind, f, values) ==
    IF kind = "MultiRepoFetch" THEN f \/ \E i \in DOMAIN values : ~values[i]
    ELSE f

\* a logger that counts every message as a failure
DriverLogger_AnyMessage(f, fatal) == TRUE

\* part_001 line 720, describe.cpp lines 128 and 171: `failed = failed or fatal`
DriverLogger(f, fatal) == f \/ fatal

\* the request whose logger the compute function of key k was given: the one
\* that asked for k first
Creator(k) ==
    Min({r \in Requests : req[r].st # "none" /\ InSeq(req[r].keys, k)})

\* part_001 lines 723-726, describe.cpp lines 131-133 and 174-176; a
\* describe driver whose flag is not set goes on with the file it received
ExitCodeOf(kind, f) ==
    IF kind = "MultiRepoFetch"
    THEN IF f THEN "kExitFetchError" ELSE "kExitSuccess"
    ELSE IF f THEN "kExitFailure" ELSE "continue"

ConsumeAfterKeysReady(r) ==
    /\ exitCode = "none"
    /\ req[r].st = "none"
    /\ \A q \in Requests : q < r => req[q].st # "none"
    /\ \E ks \in KeyLists[MaxRequested - SumLen(Requests)] :
         LET m == ScheduleKeys([cell |-> cell, tasks |-> tasks], ks) IN
         /\ FirstUseOrdered(ks)
         /\ cell' = m.cell
         /\ tasks' = m.tasks
         /\ \E kind \in DriverKinds(r, ks) :
               req' = [req EXCEPT ![r] = [NoRequest EXCEPT !.st = "waiting",
                                                          !.keys = ks,
                                                          !.kind = kind]]
    /\ UNCHANGED <<running, calls, failed, exitCode>>
    /\ UNCHANGED <<fvars, gvars, rvars, cvars, lvars, nvars>>

\* a worker takes up the computation of a key: the compute function is invoked
RunCompute(k) ==
    /\ tasks[k] > 0
    /\ tasks' = [tasks EXCEPT ![k] = @ - 1]
    /\ running' = [running EXCEPT ![k] = @ + 1]
    /\ calls' = [calls EXCEPT ![k] = @ + 1]
    /\ UNCHANGED <<cell, req, failed, exitCode>>
    /\ UNCHANGED <<fvars, gvars, rvars, cvars, lvars, nvars>>

\* the compute function ends by calling the setter ...
SetValue(k) ==
    /\ running[k] > 0
    /\ running' = [running EXCEPT ![k] = @ - 1]
    /\ \E v \in BOOLEAN :
         cell' = IF cell[k].st = "pending"
                 THEN [cell EXCEPT ![k] = [st |-> "ready", val |-> v]]
                 ELSE cell
    /\ UNCHANGED <<tasks, calls, req, failed, exitCode>>
    /\ UNCHANGED <<fvars, gvars, rvars, cvars, lvars, nvars>>

\* ... or by calling the logger with fatal=true
LogFatal(k) ==
    /\ running[k] > 0
    /\ running' = [running EXCEPT ![k] = @ - 1]
    /\ cell' = IF cell[k].st = "pending"
               THEN [cell EXCEPT ![k] = [st |-> "failed", val |-> FALSE]]
               ELSE cell
    /\ UNCHANGED <<tasks, calls, req, failed, exitCode>>
    /\ UNCHANGED <<fvars, gvars, rvars, cvars, lvars, nvars>>

\* ... after calling the logger with fatal=false any number of times: the
\* message reaches the logger of the requester, here the driver's; the key
\* stays pending
LogWarning(k) ==
    /\ running[k] > 0
    /\ IsDriver(Creator(k))
    /\ req' = [req EXCEPT ![Creator(k)].warned = TRUE]
    /\ failed' = DriverLogger(failed, FALSE)
    /\ UNCHANGED <<cell, tasks, running, calls, exitCode>>
    /\ UNCHANGED <<fvars, gvars, rvars, cvars, lvars, nvars>>

\* the success continuation of a request runs with the values of its keys
Consume(r) ==
    /\ req[r].st = "waiting"
    /\ ConsumerDue(req[r].keys)
    /\ req' = [req EXCEPT ![r].st = "done", ![r].runs = @ + 1,
                          ![r].got = ValuesOf(req[r].keys)]
    /\ failed' = IF IsDriver(r)
                 THEN DriverConsumer(req[r].kind, failed, ValuesOf(req[r].keys))
                 ELSE failed
    /\ UNCHANGED <<cell, tasks, running, calls, exitCode>>
    /\ UNCHANGED <<fvars, gvars, rvars, cvars, lvars, nvars>>

\* the error continuation of a request runs with fatal=true
OnError(r) ==
    /\ req[r].st = "waiting"
    /\ ErrorDue(req[r].keys)
    /\ req' = [req EXCEPT ![r].st = "errored", ![r].errs = @ + 1]
    /\ failed' = IF IsDriver(r) THEN DriverLogger(failed, TRUE) ELSE failed
    /\ UNCHANGED <<cell, tasks, running, calls, exitCode>>
    /\ UNCHANGED <<fvars, gvars, rvars, cvars, lvars, nvars>>

\* the task system has nothing left to do
Drained ==
    /\ \A k \in MapKeys : tasks[k] = 0 /\ running[k] = 0
    /\ \A r \in Requests :
          req[r].st = "waiting" =>
              ~ConsumerDue(req[r].keys) /\ ~ErrorDue(req[r].keys)

\* part_001 lines 723-726: the scope of the task system is left, then the flag
\* decides the exit code
DriverExit ==
    /\ exitCode = "none"
    /\ \E r \in Requests : IsDriver(r) /\ req[r].st # "none"
    /\ Drained
    /\ exitCode' = ExitCodeOf(req[Min(Requests)].kind, failed)
    /\ UNCHANGED <<cell, tasks, running, calls, req, failed>>
    /\ UNCHANGED <<fvars, gvars, rvars, cvars, lvars, nvars>>

MapInit ==
    /\ cell = [k \in MapKeys |-> [st |-> "absent", val |-> FALSE]]
    /\ tasks = [k \in MapKeys |-> 0]
    /\ running = [k \in MapKeys |-> 0]
    /\ calls = [k \in MapKeys |-> 0]
    /\ req = [r \in Requests |-> NoRequest]
    /\ failed = FALSE
    /\ exitCode = "none"

\* the fetch map at rest, as far as SpecMap is concerned
FetchAtRest ==
    /\ pc = [k \in Keys |-> "idle"]
    /\ events = [k \in Keys |-> <<>>]
    /\ value = [k \in Keys |-> "unset"]
    /\ ops = [o \in OpKeys |-> OpCell("absent", "none")]
    /\ gitTrees = {}
    /\ gitInit = FALSE
    /\ keepTags = {}
    /\ localCAS = {}
    /\ tmpRepo = [k \in Keys |-> {}]
    /\ apis = [local |-> FALSE, remote |-> FALSE]
    /\ faults = 0

InitMap ==
    FetchAtRest /\ MapInit /\ GenAtRest /\ ReachAtRest /\ CasAtRest /\ RcAtRest
        /\ RunAtRest

NextMap ==
    \/ \E r \in Requests : ConsumeAfterKeysReady(r)
    \/ \E k \in MapKeys : RunCompute(k)
    \/ \E k \in MapKeys : SetValue(k)
    \/ \E k \in MapKeys : LogFatal(k)
    \/ \E k \in MapKeys : LogWarning(k)
    \/ \E r \in Requests : Consume(r)
    \/ \E r \in Requests : OnError(r)
    \/ DriverExit

SpecMap == InitMap /\ [][NextMap]_vars

\* local_api / remote_api as handed to CreateGitTreeFetchMap: each of them may
\* be a null pointer
ApiConfigs == [local : BOOLEAN, remote : BOOLEAN]

(***************************************************************************)
(* Specification                                                           *)
(***************************************************************************)
FetchInit ==
    /\ pc = [k \in Keys |-> "idle"]
    /\ events = [k \in Keys |-> <<>>]
    /\ value = [k \in Keys |-> "unset"]
    /\ ops = [o \in OpKeys |-> OpCell("absent", "none")]
    /\ gitTrees \in SUBSET Trees
    /\ gitInit = (gitTrees # {})
    /\ keepTags = {}
    /\ localCAS = {}
    /\ tmpRepo = [k \in Keys |-> {}]
    /\ apis \in ApiConfigs
    /\ faults = 0

Init ==
    FetchInit /\ MapInit /\ GenAtRest /\ ReachAtRest /\ CasAtRest /\ RcAtRest
        /\ RunAtRest

Next ==
    \/ \E k \in Keys : Compute(k)
    \/ \E k \in Keys : InitCont(k)
    \/ \E k \in Keys : InitErr(k)
    \/ \E o \in OpKeys : OpBegin(o)
    \/ \E o \in OpKeys : OpEnd(o)
    \/ \E k \in Keys : ImportCont(k)
    \/ \E k \in Keys : ImportErr(k)
    \/ \E k \in Keys : CommitCont(k)
    \/ \E k \in Keys : CommitErr(k)
    \/ \E k \in Keys : FetchEnd(k)
    \/ \E k \in Keys : KeepTagCont(k)
    \/ \E k \in Keys : KeepTagErr(k)

Spec == Init /\ [][Next]_vars

InitGen ==
    /\ genIn \in GenInputs
    /\ gen = GenIdle
    /\ FetchAtRest /\ MapInit /\ ReachAtRest /\ CasAtRest /\ RcAtRest /\ RunAtRest

NextGen ==
    \/ GenExecute
    \/ GenVerify
    \/ GenReturn

SpecGen == InitGen /\ [][NextGen]_vars

InitReach ==
    ReachInit /\ FetchAtRest /\ MapInit /\ GenAtRest /\ CasAtRest /\ RcAtRest
        /\ RunAtRest

NextReach ==
    \/ ConfigRepository
    \/ \E n \in RepoNames : ConfigBinding(n)
    \/ \E n \in RepoNames : ConfigRoot(n)
    \/ Default
    \/ \E main \in RepoNames : Reach(main)

SpecReach == InitReach /\ [][NextReach]_vars

InitCas ==
    CasInit /\ OpenAtRest /\ FetchAtRest /\ MapInit /\ GenAtRest /\ ReachAtRest /\ RcAtRest
        /\ RunAtRest

NextCas ==
    \/ WriteObject
    \/ \E n \in ObjIds : WriteEntry(n)
    \/ \E r \in CasRequests : ReadObject(r[1], r[2])
    \/ \E r \in CasRequests : ReadHeader(r[1], r[2])
    \/ \E r \in CasRequests : ReadTree(r[1], r[2])

SpecCas == InitCas /\ [][NextCas]_vars

InitOpen ==
    OpenInit /\ CasInit /\ FetchAtRest /\ MapInit /\ GenAtRest /\ ReachAtRest
        /\ RcAtRest /\ RunAtRest

NextOpen ==
    \/ \E t \in Threads : GitCAS_Construct(t)
    \/ \E t \in Threads : OpenODB_Lock(t)
    \/ \E t \in Threads : git_repository_open(t)
    \/ \E t \in Threads : git_repository_odb(t)
    \/ \E t \in Threads : git_repository_free(t)
    \/ \E t \in Threads : OpenODB_Unlock(t)
    \/ \E t \in Threads : OpenODB_Return(t)

SpecOpen == InitOpen /\ [][NextOpen]_vars

InitRc ==
    RcInit /\ FetchAtRest /\ MapInit /\ GenAtRest /\ ReachAtRest /\ CasAtRest
        /\ RunAtRest

NextRc ==
    \/ \E f \in RcFields : RcField(f)
    \/ RcDistdir
    \/ RcLookup
    \/ RcLookupEmpty
    \/ \E f \in RcFields : RcGiven(f)
    \/ \E c \in JustCommands : RcJustCommand(c)
    \/ \E c \in JustCommands : RcJustArg(c)
    \/ ReadJustMRRC
    \/ MainDefaults

SpecRc == InitRc /\ [][NextRc]_vars

InitFetch ==
    RunInit /\ FetchAtRest /\ MapInit /\ GenAtRest /\ ReachAtRest /\ CasAtRest
        /\ RcAtRest

NextFetch ==
    \/ FetchRepository
    \/ \E n \in FetchNames : FetchBinding(n)
    \/ \E n \in FetchNames : FetchDescription(n)
    \/ MultiRepoFetch
    \/ \E cmd \in OtherSubCommands : MainReturns(cmd)

SpecFetch == InitFetch /\ [][NextFetch]_vars

(***************************************************************************)
(* Properties of the git-tree fetch map                                    *)
(***************************************************************************)
Ended(k) == pc[k] \in {"done", "failed"}

SetterCalled(k) == Has(k, "SetterTrue") \/ Has(k, "SetterFalse")

CommandCompleted(k) == Has(k, "ExecExit0") \/ Has(k, "ExecExitN")

\* C1: whenever the setter has been called for a key (with true or false), the
\* tree key.hash is present in the object database at the Git root.
C1_TreePresentWhenSet ==
    \A k \in Keys :
        LET R == Range(events[k]) IN
        (value[k] # "unset" \/ "SetterTrue" \in R \/ "SetterFalse" \in R)
            => k \in gitTrees

\* a run where one key was set on the remote-CAS path and another one on the
\* generator path
C1_Witness ==
    \E k1, k2 \in Keys :
        /\ Has(k1, "ImportOk") /\ value[k1] = "false" /\ k1 \in gitTrees
        /\ Has(k2, "KeepTagOk") /\ value[k2] = "false" /\ k2 \in gitTrees

\* C2: per key the sources are consulted in the order ENSURE_INIT, local probe,
\* remote CAS probe, generator command: the remote CAS is probed and the
\* command is executed only after the local probe reported a miss, and the
\* command is never executed when the remote-CAS path was taken.
C2_SourceOrder ==
    \A k \in Keys :
        LET s == events[k]
            R == Range(s)
        IN  /\ R \cap {"ProbeFound", "ProbeMissing", "ProbeError"} # {} =>
                  /\ s[1] = "EnsureInitReq"
                  /\ s[2] = "InitOk"
                  /\ {s[1], s[2], s[3]} \cap {"IsAvailable", "Execute"} = {}
            /\ "IsAvailable" \in R =>
                  /\ "ProbeMissing" \in R
                  /\ Pos(s, "ProbeMissing") < Pos(s, "IsAvailable")
            /\ "Execute" \in R =>
                  /\ "ProbeMissing" \in R
                  /\ Pos(s, "ProbeMissing") < Pos(s, "Execute")
                  /\ Pos(s, "IsAvailable") < Pos(s, "Execute")
                  /\ "RetrieveOk" \notin R
                  /\ "ImportReq" \notin R

\* the command was executed after the remote CAS had been probed without success
C2_Witness ==
    \E k \in Keys :
        /\ Has(k, "RemoteUnavail") /\ Has(k, "Execute")
        /\ Pos(events[k], "IsAvailable") < Pos(events[k], "Execute")

HitTrace == <<"EnsureInitReq", "InitOk", "OpenRoot", "ProbeFound", "SetterTrue">>

\* C3: the value set is cache_hit=true iff the local probe found the tree; then
\* the resolution is over at once (no Start, no remote call, no tmp dir, no
\* command, no further sub-map request); every value set on the remote-CAS or
\* generator path is false.
C3_CacheHitIffLocalProbe ==
    \A k \in Keys :
        LET R == Range(events[k]) IN
        /\ value[k] = "true" <=> "ProbeFound" \in R
        /\ "ProbeFound" \in R =>
              /\ events[k] = HitTrace
              /\ pc[k] = "done"
              /\ \A o \in {ImportOp(k), InitialCommitOp(k), KeepTagOp(k)} :
                    ops[o].st = "absent"
        /\ (value[k] # "unset" /\ "Start" \in R) => value[k] = "false"

\* one key hit the local store, another one was set after a miss
C3_Witness ==
    \E k1, k2 \in Keys :
        /\ value[k1] = "true" /\ Has(k1, "ProbeFound")
        /\ value[k2] = "false" /\ Has(k2, "ProbeMissing")

\* C4 as stated: on the generator path the key ends Ready(false) if the
\* command completed and the tree key.hash exists in the repository committed
\* from its working directory, and Failed otherwise.
C4_Original ==
    \A k \in Keys :
        (Ended(k) /\ Has(k, "Execute")) =>
            ((pc[k] = "done" /\ value[k] = "false")
                <=> (CommandCompleted(k) /\ k \in tmpRepo[k]))

\* C4 (amended): on the generator path the key ends Ready(false) exactly if
\* the command completed, the tree key.hash was found in the repository
\* committed from the working directory, and the fetch into the shared store
\* and KEEP_TAG succeeded; in every other case it ends Failed.
C4_GeneratorVerification ==
    \A k \in Keys :
        LET R == Range(events[k]) IN
        (Ended(k) /\ "Execute" \in R) =>
            /\ (pc[k] = "done" /\ value[k] = "false")
                  <=> /\ R \cap {"ExecExit0", "ExecExitN"} # {}
                      /\ {"CheckFound", "FetchOk", "KeepTagOk"} \subseteq R
            /\ pc[k] = "failed" <=> value[k] = "unset"
            /\ "CheckMissing" \in R => pc[k] = "failed"

\* both outcomes of the verification: one key verified and set, another one
\* failed because its tree was not in the committed repository
C4_Witness ==
    \E k1, k2 \in Keys :
        /\ pc[k1] = "done" /\ Has(k1, "CheckFound") /\ Has(k1, "Execute")
        /\ pc[k2] = "failed" /\ Has(k2, "CheckMissing")

\* C5: for every key whose local probe misses Start is emitted exactly once,
\* and when the setter is called exactly one Stop has been emitted, after the
\* Start and not later than the setter call.
C5_StartStop ==
    \A k \in Keys :
        LET s == events[k]
            R == Range(s)
        IN  /\ "ProbeMissing" \in R => Count(s, "Start") = 1
            /\ "Start" \in R => Pos(s, "ProbeMissing") + 1 = Pos(s, "Start")
            /\ ("ProbeMissing" \in R
                    /\ R \cap {"SetterTrue", "SetterFalse"} # {}) =>
                  /\ Count(s, "Stop") = 1
                  /\ Pos(s, "Start") < Pos(s, "Stop")
                  /\ Pos(s, "Stop") < Pos(s, "SetterFalse")

\* a miss resolved through the remote CAS: Start, Stop, then the setter
C5_Witness ==
    \E k \in Keys :
        /\ Has(k, "ProbeMissing") /\ Has(k, "ImportOk") /\ value[k] = "false"
        /\ Count(events[k], "Stop") = 1

\* C6: on every path of a key resolution that ends in failure no
\* TaskTracker.Stop has been emitted for that key.
C6_NoStopOnFailure ==
    \A k \in Keys : pc[k] = "failed" => ~Has(k, "Stop")

\* operations mutating the object database at the Git root that are in flight
StoreMutatorsInFlight ==
    Cardinality({o \in OpKeys : ops[o].st = "running" /\ TargetPath(o) = GitRoot})
    + Cardinality({k \in Keys : pc[k] = "fetching"})

\* C7: at most one operation mutating the shared store at the Git root is in
\* flight at any instant; the fetch-via-tmp-repo of one key never overlaps a
\* KEEP_TAG or another fetch-via-tmp-repo of another key.
C7_OneStoreMutator == StoreMutatorsInFlight <= 1

(***************************************************************************)
(* Properties of the async map                                             *)
(***************************************************************************)
\* C8: the compute function of a key is invoked at most once, also when the
\* key occurs several times in one request or in several requests, and all
\* requests that were served received the same value for the key.
C8_ComputeOncePerKey ==
    /\ \A k \in MapKeys : calls[k] <= 1
    /\ \A r1, r2 \in Requests :
          (req[r1].st = "done" /\ req[r2].st = "done") =>
              \A i \in DOMAIN req[r1].keys, j \in DOMAIN req[r2].keys :
                  req[r1].keys[i] = req[r2].keys[j]
                      => req[r1].got[i] = req[r2].got[j]

\* a key that occurs twice in one request and again in another request; both
\* requests were served and the key was computed once
C8_Witness ==
    \E r1, r2 \in Requests, k \in MapKeys :
        /\ r1 # r2
        /\ req[r1].st = "done" /\ req[r2].st = "done"
        /\ Count(req[r1].keys, k) >= 2
        /\ Count(req[r2].keys, k) >= 1
        /\ calls[k] = 1

\* C9: the success continuation of a request runs at most once, only when all
\* its keys are ready and with their values in the order of the request, never
\* when one of its keys failed; once the task system has drained it has run
\* exactly once for every request whose keys are all ready.
C9_ConsumerOnceInOrder ==
    \A r \in Requests :
        LET ks == req[r].keys IN
        /\ req[r].runs <= 1
        /\ req[r].runs = 1 =>
              /\ \A i \in DOMAIN ks : cell[ks[i]].st = "ready"
              /\ Len(req[r].got) = Len(ks)
              /\ \A i \in DOMAIN ks : req[r].got[i] = cell[ks[i]].val
              /\ req[r].errs = 0
        /\ (\E i \in DOMAIN ks : cell[ks[i]].st = "failed") => req[r].runs = 0
        /\ (exitCode # "none" /\ req[r].st # "none"
               /\ \A i \in DOMAIN ks : cell[ks[i]].st = "ready")
              => req[r].runs = 1

\* the driver has returned; a request for two different keys was served with
\* two different values, in the order of its keys
C9_Witness ==
    /\ exitCode # "none"
    /\ \E r \in Requests :
          /\ req[r].runs = 1 /\ Len(req[r].keys) = 2
          /\ req[r].keys[1] # req[r].keys[2]
          /\ req[r].got = <<TRUE, FALSE>>
          /\ cell[req[r].keys[1]].val /\ ~cell[req[r].keys[2]].val

StageFailures ==
    {"InitEmpty", "OpenRootFail", "RemoteTmpDirFail", "CopyFail", "TmpDirFail",
     "OutDirFail", "ExecFail", "CommitEmpty", "InitialCommitError",
     "OpenTmpFail", "ProbeError", "CheckError", "OpenJustFail",
     "FetchTmpDirFail", "FetchFail", "KeepTagEmpty", "KeepTagError",
     "ImportEmpty", "ImportError", "EnsureInitError"}

StageFailed(k) == Range(events[k]) \cap StageFailures # {}

\* C10: every failure of a stage of a key resolution ends the resolution with
\* the logger called with fatal=true and without the setter being called.
C10_StageFailureIsFatal ==
    \A k \in Keys :
        StageFailed(k) =>
            /\ pc[k] = "failed"
            /\ events[k][Len(events[k])] = "Fatal"
            /\ Count(events[k], "Fatal") = 1
            /\ Range(events[k]) \cap {"SetterTrue", "SetterFalse"} = {}
            /\ value[k] = "unset"

\* a resolution that got as far as KEEP_TAG and failed there
C10_Witness ==
    \E k \in Keys :
        /\ Has(k, "KeepTagEmpty") /\ Has(k, "Fatal") /\ pc[k] = "failed"
        /\ value[k] = "unset"

\* events of the generator stage
GeneratorEvents ==
    {"TmpDir", "TmpDirFail", "OutDir", "OutDirFail", "Execute", "CommitReq"}

\* C11: a failure of the retrieval into the local CAS, after the remote CAS
\* reported the tree available, makes the key fail fatally and the generator
\* stage is not entered; when an API is missing or the remote CAS reports the
\* tree unavailable, the generator stage is entered with no error reported
\* before it.
C11_RetrieveFailureIsFatal ==
    \A k \in Keys :
        LET s == events[k]
            R == Range(s)
        IN  /\ "RetrieveFail" \in R =>
                  /\ pc[k] = "failed"
                  /\ "Fatal" \in R
                  /\ R \cap GeneratorEvents = {}
            /\ ("Start" \in R /\ "RemoteAvail" \notin R) =>
                  /\ R \cap {"TmpDir", "TmpDirFail"} # {}
                  /\ "Fatal" \in R =>
                        Pos(s, "Start") + 1 < Pos(s, "Fatal")

\* b occurs only after a
\* the stages of the generator path, in the order of the code
StageChain ==
    <<"Execute", "CommitReq", "CommitOk", "CheckFound", "FetchBegin",
      "FetchOk", "KeepTagReq", "KeepTagOk", "SetterFalse">>

Stages == Range(StageChain)

IsStage(e) == e \in Stages

\* C12: on the generator path the stages follow each other in the order
\* command, INITIAL_COMMIT, tree verification, fetch into the shared store,
\* KEEP_TAG for the key's commit, setter(false); KEEP_TAG is requested only
\* after a matching verification and a successful fetch, and the setter is
\* called only after KEEP_TAG has returned its result.
C12_GeneratorStageOrder ==
    \A k \in Keys :
        LET s == events[k]
            R == Range(s)
        IN  /\ ops[KeepTagOp(k)].st # "absent" => "KeepTagReq" \in R
            /\ "Execute" \in R =>
                  /\ LET t == SelectSeq(s, IsStage)
                     IN  /\ Len(t) <= Len(StageChain)
                         /\ \A i \in DOMAIN t : t[i] = StageChain[i]
                  /\ "KeepTagReq" \in R => ops[KeepTagOp(k)].st # "absent"
                  /\ "SetterFalse" \in R =>
                        /\ ops[KeepTagOp(k)] = OpCell("ready", "ok")
                        /\ k \in keepTags

\* a key resolved by its generator command, with the keep tag in place
C12_Witness ==
    \E k \in Keys :
        /\ Has(k, "Execute") /\ Has(k, "KeepTagOk")
        /\ value[k] = "false" /\ k \in keepTags

\* C14: a command that ran and exited with a non-zero status is followed by
\* INITIAL_COMMIT exactly as for status zero; the key then fails only for
\* another reason (the tree is missing from the committed directory, or a later
\* stage fails), and with the tree found and no stage failing it is set.
C14_NonZeroExitNotFatal ==
    \A k \in Keys :
        LET s == events[k]
            R == Range(s)
        IN  "ExecExitN" \in R =>
              /\ Pos(s, "CommitReq") = Pos(s, "ExecExitN") + 1
              /\ pc[k] = "failed" =>
                    R \cap (StageFailures \cup {"CheckMissing"}) # {}
              /\ (Ended(k) /\ "CheckFound" \in R /\ R \cap StageFailures = {})
                    => (pc[k] = "done" /\ value[k] = "false")

\* a key set although its command exited with a non-zero status
C14_Witness ==
    \E k \in Keys :
        /\ Has(k, "ExecExitN") /\ Has(k, "CheckFound")
        /\ pc[k] = "done" /\ value[k] = "false"


\* C13 (as stated): the environment of the command is key.env_vars overlaid
\* on the inherited values: a name set in env_vars has its env_vars value,
\* also when it is listed in inherit_env and set in the ambient environment;
\* any other name has its ambient value if it is inherited and set, and is
\* unset otherwise
C13_EnvVarsOverlayInherited ==
    gen.pc # "start" =>
        \A n \in EnvNames :
            gen.env[n] = IF genIn.env_vars[n] # "unset" THEN genIn.env_vars[n]
                         ELSE IF n \in genIn.inherit_env THEN genIn.ambient[n]
                         ELSE "unset"

\* the contents of a capture file as the diagnostic can show them
Shown(file) == IF file \in {"out", "err"} THEN file ELSE ""

\* C15: when the committed directory is not the declared tree, the key fails
\* with a single fatal diagnostic that contains the command line as JSON
\* (launcher followed by command) and the declared tree id, and, whenever the
\* captured stdout or stderr is non-empty, stdout followed by stderr; nothing
\* is fetched and no KEEP_TAG is requested
C15_MismatchDiagnostic ==
    gen.tree = "missing" =>
        /\ gen.pc = "failed"
        /\ Len(gen.log) = 1
        /\ gen.log[1].fatal
        /\ LET m == gen.log[1].msg
               out == Shown(gen.stdout_file)
               err == Shown(gen.stderr_file)
           IN  /\ \E i \in DOMAIN m :
                     m[i] = <<"json">> \o genIn.launcher \o genIn.command
               /\ \E i \in DOMAIN m : m[i] = <<GenHash>>
               /\ (out # "" \/ err # "") =>
                     \E i \in DOMAIN m :
                         /\ i + 1 \in DOMAIN m
                         /\ m[i] = <<out>>
                         /\ m[i + 1] = <<err>>

C15_Witness ==
    /\ gen.tree = "missing"
    /\ gen.pc = "failed"
    /\ genIn.launcher # <<>>
    /\ gen.stdout_file = ""
    /\ gen.stderr_file = "err"

NoDuplicates(list) == \A i, j \in DOMAIN list : list[i] = list[j] => i = j

\* the values of the bindings of a repository, as the configuration has them
BindingsOf(n) ==
    IF n \in DOMAIN repos.map THEN repos.map[n].bindings ELSE <<>>

\* the names a repository binds by string values
BoundNames(n) == Range(BindingsOf(n)) \cap RepoNames

RECURSIVE BindingClosure(_)
BindingClosure(S) ==
    LET T == S \cup UNION {BoundNames(n) : n \in S}
    IN  IF T = S THEN S ELSE BindingClosure(T)

\* depth-first order of first visits: after list[1..i], the next name is the
\* first name not yet listed among the bindings of the latest listed
\* repository that still binds such a name
DepthFirst(list) ==
    \A i \in 1..(Len(list) - 1) :
        LET seen == {list[k] : k \in 1..i}
            open == {j \in 1..i : BoundNames(list[j]) \ seen # {}}
        IN  /\ open # {}
            /\ LET b == BindingsOf(list[Max(open)])
                   p == Min({q \in DOMAIN b : b[q] \in RepoNames \ seen})
               IN  list[i + 1] = b[p]

ReachedFrom(main) ==
    /\ rstate.op = "reach"
    /\ rstate.main = main
    /\ repos.isMap

\* C16: to_include holds exactly the names reachable from main through the
\* string-valued entries of "bindings", in the order of their first visit by
\* a depth-first traversal that starts at main
C16_IncludeIsReachableDepthFirst ==
    \A main \in RepoNames :
        ReachedFrom(main) =>
            /\ Range(setup.to_include) = BindingClosure({main})
            /\ setup.to_include[1] = main
            /\ DepthFirst(setup.to_include)

C16_Witness ==
    /\ ReachedFrom(1)
    /\ setup.to_include = <<1, 2, 4, 3>>
    /\ repos.map[1].bindings = <<2, 3>>

\* C17: for every repositories map and every main, to_include has no
\* duplicates and its first element is main
C17_IncludeDistinctMainFirst ==
    \A main \in RepoNames :
        ReachedFrom(main) =>
            /\ NoDuplicates(setup.to_include)
            /\ Len(setup.to_include) >= 1
            /\ setup.to_include[1] = main

C17_Witness ==
    /\ ReachedFrom(2)
    /\ Len(setup.to_include) >= 3
    /\ \E n \in Range(setup.to_include) \ {2} : 2 \in BoundNames(n)

\* C18 (as stated): both lists hold distinct entries and to_setup contains
\* every entry of to_include, also when an overlay root names a repository
\* of to_include or two repositories name the same overlay root
C18_BothListsDistinct ==
    rstate.op = "reach" =>
        /\ NoDuplicates(setup.to_include)
        /\ NoDuplicates(setup.to_setup)
        /\ Range(setup.to_include) \subseteq Range(setup.to_setup)

\* the string values of the three alternative roots of a repository
OverlayNames(n) ==
    IF n \in DOMAIN repos.map
    THEN {repos.map[n].target_root, repos.map[n].rule_root,
          repos.map[n].expression_root} \cap RepoNames
    ELSE {}

\* C19: as a set, to_setup is to_include together with the string values of
\* target_root, rule_root and expression_root of the repositories of
\* to_include: neither the roots nor the bindings of a repository that is
\* only in to_setup are followed
C19_SetupIsIncludePlusOverlays ==
    \A main \in RepoNames :
        ReachedFrom(main) =>
            Range(setup.to_setup) =
                Range(setup.to_include)
                    \cup UNION {OverlayNames(n) : n \in Range(setup.to_include)}

C19_Witness ==
    /\ ReachedFrom(1)
    /\ \E o \in Range(setup.to_setup) \ Range(setup.to_include) :
          /\ OverlayNames(o) \ Range(setup.to_setup) # {}
          /\ BoundNames(o) \ Range(setup.to_setup) # {}

\* C20: a call of ReachableRepositories yields the lists of a call on an
\* empty SetupRepos, whatever the SetupRepos held before: its own result or
\* any other content
C20_ReachIdempotent ==
    rstate.op = "reach" =>
        setup = ReachableRepositories(repos, rstate.main, EmptySetupRepos)

C20_Witness ==
    /\ ReachedFrom(1)
    /\ rstate.on = "own result"
    /\ Len(setup.to_include) >= 2
    /\ Len(setup.to_setup) > Len(setup.to_include)

\* main lies on a cycle of bindings
OnBindingCycle(main) == main \in BindingClosure(BoundNames(main))

\* C21: ReachableRepositories returns on maps whose bindings are cyclic: the
\* call ends with every name of the cycle listed once (a binds b, b binds a
\* and main = a give to_include = [a, b]), and nothing is reported
C21_CyclicBindingsTerminate ==
    \A main \in RepoNames :
        (ReachedFrom(main) /\ OnBindingCycle(main)) =>
            /\ NoDuplicates(setup.to_include)
            /\ Range(setup.to_include) = BindingClosure({main})
            /\ \A b \in RepoNames \ {main} :
                  (/\ BindingsOf(main) = <<b>>
                   /\ BindingsOf(b) = <<main>>)
                      => setup.to_include = <<main, b>>

C21_Witness ==
    /\ ReachedFrom(1)
    /\ Len(repos.map) >= 2
    /\ repos.map[1].bindings = <<2>>
    /\ repos.map[2].bindings = <<1>>
    /\ setup.to_include = <<1, 2>>

\* C22: DefaultReachableRepositories sets both lists to the keys of the
\* repositories map, each key once, whatever the lists held before
C22_DefaultIsAllKeys ==
    (rstate.op = "default" /\ repos.isMap) =>
        /\ setup.to_setup = setup.to_include
        /\ NoDuplicates(setup.to_setup)
        /\ Range(setup.to_setup) = DOMAIN repos.map

C22_Witness ==
    /\ rstate.op = "default"
    /\ rstate.on = "other content"
    /\ repos.isMap
    /\ Len(repos.map) >= 2

(***************************************************************************)
(* Properties of GitCAS                                                    *)
(***************************************************************************)
ReadTreeReturned == cas.op = "ReadTree" /\ cas.kind = "value"

\* C28: every result returned by ReadTree is such that, for each raw child
\* id, either all entries listed under that id are tree objects or none of
\* them is.
C28_ResultNeverStraddles ==
    ReadTreeReturned =>
        \A id \in DOMAIN cas.entries :
            LET types == {cas.entries[id][i].type : i \in DOMAIN cas.entries[id]}
            IN  types \subseteq {"Tree"} \/ "Tree" \notin types

\* the read call asked for a stored tree by its well-formed id, and the
\* object database could be wrapped
TreeRead ==
    /\ cas.op = "ReadTree"
    /\ cas.form \in {"hex", "raw"}
    /\ cas.wrapped
    /\ cas.obj \in DOMAIN gitOdb
    /\ gitOdb[cas.obj].kind = "tree"

Translated(mode) ==
    CASE mode = "100644" -> "File"
      [] mode = "100755" -> "Executable"
      [] mode = "040000" -> "Tree"
      [] OTHER -> "no type"

\* the (id, position) places of a result
Places(entries) ==
    UNION {{<<id, i>> : i \in DOMAIN entries[id]} : id \in DOMAIN entries}

\* C29: modes 100644, 100755 and 040000 are translated to File, Executable
\* and Tree; a tree with a direct entry of another mode is read with no
\* result at all, and a result lists every direct child of the tree exactly
\* once, under the raw id of the child and with the translated type, and
\* nothing else (no entry of a subtree).
C29_ModesTranslatedFlat ==
    TreeRead =>
        LET es == gitOdb[cas.obj].entries
        IN  /\ (\E i \in DOMAIN es : Translated(es[i].mode) = "no type")
                => cas.kind = "nullopt" /\ cas.entries = <<>>
            /\ cas.kind = "value" =>
                /\ Cardinality(Places(cas.entries)) = Len(es)
                /\ \A i \in DOMAIN es :
                     \E p \in Places(cas.entries) :
                        /\ p[1] = RawId(es[i].id)
                        /\ cas.entries[p[1]][p[2]] =
                              [name |-> es[i].name,
                               type |-> Translated(es[i].mode)]

\* a tree whose only entry is a subtree that has an entry of its own has been
\* read, and the result has the one entry
C29_Witness ==
    /\ TreeRead
    /\ cas.kind = "value"
    /\ cas.obj = 1
    /\ Len(gitOdb) >= 2
    /\ Len(gitOdb[1].entries) = 1
    /\ gitOdb[1].entries[1].mode = "040000"
    /\ gitOdb[1].entries[1].id = 2
    /\ gitOdb[2].kind = "tree"
    /\ Len(gitOdb[2].entries) >= 1
    /\ Cardinality(Places(cas.entries)) = 1

\* the id strings that are malformed for their encoding: a length other than
\* 40 characters (hex) or 20 bytes (raw), or a character that is no hex digit
MalformedRequests ==
    {r \in CasRequests :
        LET id == IdString(r[1], r[2])
        IN  IF IsHexForm(r[2])
            THEN Len(id) # 40 \/ \E i \in DOMAIN id : id[i] \notin HexDigits
            ELSE Len(id) # 20}

\* C30: ReadObject, ReadHeader and ReadTree return no result whenever the id
\* is malformed for its encoding or the object is not in the database;
\* otherwise ReadObject returns the payload of the object.
C30_MalformedOrAbsentIsNone ==
    cas.op # "none" =>
        IF <<cas.obj, cas.form>> \in MalformedRequests
              \/ cas.obj \notin DOMAIN gitOdb
        THEN cas.kind = "nullopt"
        ELSE cas.op = "ReadObject" =>
                cas.kind = "value" /\ cas.payload = gitOdb[cas.obj]

(***************************************************************************)
(* Properties of the run-control file                                      *)
(***************************************************************************)
\* the root of the location that a call of ReadLocation was made for
RootOf(f, i) ==
    CASE f \in RcFields -> rc.fields[f].root
      [] f = "distdirs" -> rc.distdirs[i].root
      [] f = "config lookup order" ->
            IF rc.hasLookup THEN rc.lookup[i].root
            ELSE kDefaultConfigLocations[i]

\* the number of entries of the list that an entry belongs to
EntriesOf(f) ==
    CASE f = "distdirs" -> Len(rc.distdirs)
      [] f = "config lookup order" ->
            IF rc.hasLookup THEN Len(rc.lookup)
            ELSE Len(kDefaultConfigLocations)
      [] OTHER -> 1

\* C27: when no workspace root was detected, every workspace-rooted location
\* that ReadJustMRRC resolves yields no location (nothing is set, added or
\* returned for it) and a warning only; the program does not end at it, and
\* the next entry of the same list, if there is one, is resolved next.
C27_WorkspaceLocationSkipped ==
    (rcRun.st # "none" /\ ~rc.ws_root) =>
        \A j \in DOMAIN rcRun.log :
            LET e == rcRun.log[j]
            IN  RootOf(e.field, e.index) = "workspace" =>
                    /\ e.event = "Warning: Not in workspace root"
                    /\ e.field \notin rcRun.set
                    /\ e.field = "distdirs" =>
                          \A d \in DOMAIN rcRun.distdirs :
                              rcRun.distdirs[d] # e.index
                    /\ e.field = "config lookup order" =>
                          rcRun.config # <<e.index>>
                    /\ j = Len(rcRun.log) =>
                          rcRun.exit = "none" /\ rcRun.st = "returned"
                    /\ e.index < EntriesOf(e.field) =>
                          /\ j < Len(rcRun.log)
                          /\ rcRun.log[j + 1].field = e.field
                          /\ rcRun.log[j + 1].index = e.index + 1

\* outside of a workspace, a workspace-rooted distdir is followed by a
\* distdir that exists: the first is skipped with a warning, the second added
C27_Witness ==
    /\ ~rc.ws_root
    /\ rcRun.st = "returned"
    /\ Len(rc.distdirs) = 2
    /\ rc.distdirs[1].root = "workspace"
    /\ rc.distdirs[2] = [root |-> "home", exists |-> TRUE]
    /\ rcRun.distdirs = <<2>>
    /\ \E j \in DOMAIN rcRun.log :
          /\ rcRun.log[j].field = "distdirs"
          /\ rcRun.log[j].index = 1
          /\ rcRun.log[j].event = "Warning: Not in workspace root"

(***************************************************************************)
(* Properties of the fetch subcommand                                      *)
(***************************************************************************)
\* the run got as far as computing the closure of a main repository
ClosureComputed ==
    /\ fetchRun.st = "returned"
    /\ fetchRun.cmd = "kFetch"
    /\ fetchRun.env # "no fetch dir"
    /\ fetchIn.hasKey
    /\ ~fetchRun.sub_all

\* C23: when neither option names a main repository and the repositories
\* mapping is not empty, the closure is computed from the smallest
\* repository name of the mapping; a main repository given by an option (the
\* one of the setup options if both are given) is the one the closure is
\* computed from, whether it is described or not.
C23_MainDefaultsToSmallest ==
    ClosureComputed =>
        /\ fetchRun.sub_main # NoValue => fetchRun.main = fetchRun.sub_main
        /\ (fetchRun.sub_main = NoValue /\ fetchRun.common_main # NoValue)
              => fetchRun.main = fetchRun.common_main
        /\ (fetchRun.sub_main = NoValue /\ fetchRun.common_main = NoValue
               /\ fetchIn.map # <<>>)
              => /\ fetchRun.main \in DOMAIN fetchIn.map
                 /\ \A n \in DOMAIN fetchIn.map : fetchRun.main <= n
        /\ fetchRun.main # NoValue =>
              /\ fetchRun.to_include # <<>>
              /\ fetchRun.to_include[1] = fetchRun.main

\* two repositories, no main repository given, the second one binds the
\* first: the closure is the one of the first
C23_Witness ==
    /\ ClosureComputed
    /\ fetchRun.sub_main = NoValue
    /\ fetchRun.common_main = NoValue
    /\ Len(fetchIn.map) = 2
    /\ fetchIn.map[2].bindings = <<1>>
    /\ fetchRun.main = 1
    /\ fetchRun.to_include = <<1>>

ConfigurationErrors ==
    {"Config: found cyclic dependency for repository",
     "Config: mandatory key \"type\" missing",
     "Config: unsupported value for key 'type'",
     "Unknown repository type",
     "Mandatory field \"content\" is missing",
     "Unsupported value for mandatory field 'content'",
     "Mandatory field \"fetch\" is missing",
     "Unsupported value for mandatory field 'fetch'"}

\* C24: a run that finds a configuration error in a reachable repository (a
\* cycle of "repository" indirections, a missing, non-string or unknown
\* "type", a missing or non-string "content" or "fetch" of an archive) ends
\* with the configuration-error exit code.
C24_ConfigErrorExitCode ==
    (fetchRun.st = "returned" /\ fetchRun.error \in ConfigurationErrors) =>
        fetchRun.exit = "kExitConfigError"

\* C25: the fetch on a configuration without "repositories", in a usable
\* fetch directory, fetches nothing and ends with success.
C25_MissingRepositoriesIsEmpty ==
    (/\ fetchRun.st = "returned" /\ fetchRun.cmd = "kFetch"
     /\ ~fetchIn.hasKey /\ fetchRun.env = "ok") =>
        /\ fetchRun.exit = "kExitSuccess"
        /\ fetchRun.error = "none"
        /\ fetchRun.repos_to_fetch = <<>>

\* the names reachable through bindings from the names of S
RECURSIVE FetchReachable(_)
FetchReachable(S) ==
    LET T == S \cup UNION {Range(fetchIn.map[n].bindings) :
                             n \in S \cap DOMAIN fetchIn.map}
    IN  IF T = S THEN S ELSE FetchReachable(T)

\* the main repository of a run: the one of the options, else the smallest
\* name of the mapping
MainOfRun ==
    IF fetchRun.sub_main # NoValue THEN fetchRun.sub_main
    ELSE IF fetchRun.common_main # NoValue THEN fetchRun.common_main
    ELSE IF fetchIn.map # <<>> THEN 1
    ELSE NoValue

\* C26: if a name reachable from main through bindings has no entry in the
\* repositories mapping, or its entry has no "repository" field, the run
\* ends with a non-zero exit code and no fetch is started.
C26_UnresolvedNameStopsRun ==
    (/\ fetchRun.st = "returned"
     /\ fetchRun.cmd = "kFetch"
     /\ fetchIn.hasKey
     /\ MainOfRun # NoValue
     /\ \E n \in FetchReachable({MainOfRun}) :
           \/ n \notin DOMAIN fetchIn.map
           \/ fetchIn.map[n].repository = NoRepository)
        => /\ fetchRun.exit \notin {"none", "kExitSuccess"}
           /\ ~fetchRun.started
           /\ fetchRun.repos_to_fetch = <<>>

(***************************************************************************)
(* Properties of GitCAS::Open                                              *)
(***************************************************************************)
\* between taking repo_mutex and leaving the scope of the lock
InSection(t) == opens[t].pc \in {"open", "odb", "free", "unlock"}

\* C31: Open returns a handle exactly when the path is a repository that
\* git_repository_open (called with libgit2 initialised) opens and whose
\* object database is obtained, and nullptr otherwise; at most one thread is
\* between taking repo_mutex and leaving the scope of the lock; a thread that
\* has returned, with or without a handle, does not hold the mutex.
C31_OpenSerialised ==
    /\ Cardinality({t \in Threads : InSection(t)}) <= 1
    /\ \A t \in Threads :
          /\ opens[t].pc = "done" =>
                /\ opens[t].handle \in {"cas", "nullptr"}
                /\ opens[t].handle = "cas" <=>
                      (opens[t].initialized_ /\ opens[t].path = "repository")
                /\ t \notin repo_mutex
          /\ opens[t].pc # "done" => opens[t].handle = "none"
          /\ InSection(t) => repo_mutex = {t}

\* one call has failed inside the locked section and another one has got
\* its handle
C31_Witness ==
    \E t1, t2 \in Threads :
        /\ opens[t1].pc = "done" /\ opens[t1].initialized_
        /\ opens[t1].path = "no repository" /\ opens[t1].handle = "nullptr"
        /\ opens[t2].pc = "done" /\ opens[t2].handle = "cas"
        /\ repo_mutex = {}

(***************************************************************************)
(* Properties of the drivers                                               *)
(***************************************************************************)
\* what the driver's continuations were called with: its logger with
\* fatal=true, its consumer with a value that is false
FatalReported == req[Min(Requests)].errs > 0

FalseReturned ==
    /\ req[Min(Requests)].runs > 0
    /\ \E i \in DOMAIN req[Min(Requests)].got : ~req[Min(Requests)].got[i]

Setters == {"SetterTrue", "SetterFalse"}

\* C33: within the resolution of a key the setter is called at most once, no
\* call of the setter follows a call of the logger with fatal=true and no call
\* of the logger with fatal=true follows a call of the setter; the value set
\* is the one the setter was called with and stays.
C33_OutcomeDecidedOnce ==
    \A k \in Keys :
        LET ev == events[k]
            n == Len(ev)
        IN  IF value[k] = "unset"
            THEN \A i \in 1..n : ev[i] \notin Setters
            ELSE /\ n > 0
                 /\ ev[n] \in Setters
                 /\ value[k] = IF ev[n] = "SetterTrue" THEN "true" ELSE "false"
                 /\ pc[k] = "done"
                 /\ \A i \in 1..(n - 1) : ev[i] \notin Setters \cup {"Fatal"}

\* one key was set after the generator path, another one failed at KEEP_TAG
C33_Witness ==
    \E k1, k2 \in Keys :
        /\ Has(k1, "SetterFalse") /\ Has(k1, "Execute") /\ pc[k1] = "done"
        /\ Has(k2, "Fatal") /\ Has(k2, "Execute") /\ pc[k2] = "failed"

(***************************************************************************)
(* The command line and the directories of the generator                   *)
(***************************************************************************)
\* C35: the command line that was executed is the launcher followed by
\* key.command, element by element; the directory the command ran in and the
\* one its output was captured in are two different directories, and while
\* the check of the committed tree is outstanding, and after it until the
\* continuation returns, both exist.
C35_LauncherThenCommand ==
    gen.pc # "start" =>
        /\ Len(gen.cmdline) = Len(genIn.launcher) + Len(genIn.command)
        /\ \A i \in DOMAIN genIn.launcher : gen.cmdline[i] = genIn.launcher[i]
        /\ \A i \in DOMAIN genIn.command :
              gen.cmdline[Len(genIn.launcher) + i] = genIn.command[i]
        /\ gen.tmp_dir # gen.out_dir
        /\ gen.pc = "committed" => gen.alive = {gen.tmp_dir, gen.out_dir}
        /\ gen.alive # {} => gen.alive = {gen.tmp_dir, gen.out_dir}

\* a launcher of two words and a command of two words; the tree was found and
\* the continuation still runs
C35_Witness ==
    /\ gen.pc = "fetch" /\ gen.tree = "found"
    /\ gen.cmdline = <<"env", "--", "sh", "gen">>
    /\ gen.alive = {gen.tmp_dir, gen.out_dir}

(***************************************************************************)
(* Validation before the fetch                                             *)
(***************************************************************************)
\* the description a name of to_include stands for, after the indirections
ResolvedKind(n) ==
    IF n \notin DOMAIN fetchIn.map THEN "no entry"
    ELSE IF fetchIn.map[n].repository = NoRepository THEN "no repository"
    ELSE ResolveRepo(fetchIn.map[n].repository, fetchIn.map, {}).kind

\* "file" stands for the types that need no fetch
ValidKinds == {"file", "archive"}

ArchivesOf(list) == SelectSeq(list, LAMBDA n : ResolvedKind(n) = "archive")

\* C36: the fetch is started only after every repository of to_include has
\* passed validation; if one of them fails, the run ends with an error before
\* the task system is started and nothing is handed to the fetch; the list to
\* fetch holds exactly the archive-type repositories of to_include, in the
\* order of to_include.
C36_ValidatedBeforeFetch ==
    (fetchRun.st = "returned" /\ fetchRun.cmd = "kFetch") =>
        LET invalid == {i \in DOMAIN fetchRun.to_include :
                          ResolvedKind(fetchRun.to_include[i]) \notin ValidKinds}
        IN  /\ fetchRun.started =>
                  /\ invalid = {}
                  /\ fetchRun.repos_to_fetch = ArchivesOf(fetchRun.to_include)
            /\ invalid # {} =>
                  /\ ~fetchRun.started
                  /\ fetchRun.repos_to_fetch = <<>>
                  /\ fetchRun.error # "none"
                  /\ fetchRun.exit \notin {"none", "kExitSuccess"}
            /\ ~fetchRun.started => fetchRun.repos_to_fetch = <<>>

\* a fetch of two repositories of which the second one is the only archive
C36_Witness ==
    /\ fetchRun.st = "returned" /\ fetchRun.started
    /\ Len(fetchRun.to_include) = 2
    /\ fetchRun.repos_to_fetch = <<fetchRun.to_include[2]>>

(***************************************************************************)
(* The setup subcommand                                                    *)
(***************************************************************************)
\* a configuration in which every name has an entry with a description that
\* passes validation, and the main repository of the run in it
ValidConfiguration ==
    /\ fetchIn.hasKey
    /\ fetchIn.map # <<>>
    /\ \A n \in DOMAIN fetchIn.map :
          /\ ResolvedKind(n) \in ValidKinds
          /\ Range(fetchIn.map[n].bindings) \subseteq DOMAIN fetchIn.map

SetupMain == IF fetchRun.main # NoValue THEN fetchRun.main ELSE 1

\* C32 (as stated): after a successful setup on a valid configuration there
\* is an emitted configuration that has, for every repository reachable from
\* main, an entry whose "repository" is a `git tree` root with a tree id that
\* is in the Git object store.
C32_SetupEmitsGitTreeRoots ==
    (/\ fetchRun.st = "returned"
     /\ fetchRun.cmd \in {"kSetup", "kSetupEnv"}
     /\ fetchRun.exit = "kExitSuccess"
     /\ ValidConfiguration
     /\ SetupMain \in DOMAIN fetchIn.map)
        => /\ fetchRun.emitted # "none"
           /\ \A r \in FetchReachable({SetupMain}) :
                 /\ r \in DOMAIN fetchRun.emitted
                 /\ fetchRun.emitted[r].repository.kind = "git tree"
                 /\ fetchRun.emitted[r].repository.ref \in gitTrees

(***************************************************************************)
(* Properties of the run-control file and of main's defaults               *)
(***************************************************************************)
\* a location of the rc file that ReadLocation turns into a pair of paths
Resolves(l) ==
    /\ l.root \in kLocationTypes
    /\ l.root = "workspace" => rc.ws_root

LookupLog == SelectSeq(rcRun.log, LAMBDA e : e.field = "config lookup order")

\* C37: an option given on the command line (local build root, checkout
\* locations file, just path) is not read from the rc file and keeps its
\* command-line value; an option not given takes the rc value when the rc
\* location resolves; the distdirs of the rc file are added in their order;
\* main adds the default distdir exactly if the rc file added none and puts
\* the explicitly given distdirs, in their order, after all others.
C37_CommandLineKept ==
    rcRun.st # "none" =>
        /\ \A f \in RcFields :
              /\ f \in rc.given =>
                    /\ f \notin rcRun.set
                    /\ \A j \in DOMAIN rcRun.log : rcRun.log[j].field # f
              /\ f \in rcRun.set =>
                    f \notin rc.given /\ Resolves(rc.fields[f])
              /\ (rcRun.st = "returned" /\ f \notin rc.given
                     /\ Resolves(rc.fields[f])) => f \in rcRun.set
        /\ \A i \in DOMAIN rcRun.distdirs :
              /\ rcRun.distdirs[i] \in DOMAIN rc.distdirs
              /\ Resolves(rc.distdirs[rcRun.distdirs[i]])
              /\ rc.distdirs[rcRun.distdirs[i]].exists
              /\ i > 1 => rcRun.distdirs[i - 1] < rcRun.distdirs[i]
        /\ rcRun.main.st = "done" =>
              LET d == rcRun.main.distdirs
                  n == Len(rcRun.distdirs)
                  x == rcRun.main.explicit
              IN  /\ \A f \in RcFields :
                        /\ rcRun.main.values[f] = "command line"
                              <=> f \in rc.given
                        /\ rcRun.main.values[f] = "rc" <=> f \in rcRun.set
                  /\ Len(d) = (IF n = 0 THEN 1 ELSE n) + x
                  /\ \A i \in 1..n :
                        d[i] = [from |-> "rc", index |-> rcRun.distdirs[i]]
                  /\ n = 0 => d[1].from = "default"
                  /\ n > 0 => \A i \in DOMAIN d : d[i].from # "default"
                  /\ \A i \in 1..x :
                        d[Len(d) - x + i] = [from |-> "explicit", index |-> i]

\* the just path is given on the command line and in the rc file, the rc
\* file has no distdir and one distdir is given explicitly
C37_Witness ==
    /\ rcRun.main.st = "done"
    /\ rc.given = {"just"}
    /\ rc.fields["just"].root = "home"
    /\ rcRun.main.values["just"] = "command line"
    /\ rcRun.main.explicit = 1
    /\ Len(rcRun.main.distdirs) = 2
    /\ rcRun.main.distdirs[1].from = "default"
    /\ rcRun.main.distdirs[2].from = "explicit"

\* C38: with "config lookup order" in the rc file, ReadJustMRRC returns the
\* first entry of the list that resolves and exists as a file, with
\* setup_root from the same entry, and nothing if there is none; the
\* built-in locations are tried, in their order, only without the list; in
\* main a repository configuration of the command line replaces the result
\* and a missing result ends the program.
C38_FirstExistingLookupEntry ==
    /\ rcRun.st = "returned" =>
          /\ rcRun.setup_root = rcRun.config
          /\ rc.hasLookup =>
                LET found == {i \in DOMAIN rc.lookup :
                                Resolves(rc.lookup[i]) /\ rc.lookup[i].exists}
                IN  /\ rcRun.config = IF found = {} THEN <<>>
                                      ELSE <<Min(found)>>
                    /\ Len(LookupLog) = IF found = {} THEN Len(rc.lookup)
                                        ELSE Min(found)
          /\ ~rc.hasLookup =>
                /\ \A j \in DOMAIN LookupLog :
                      /\ LookupLog[j].index = j
                      /\ j \in DOMAIN kDefaultConfigLocations
                      /\ LookupLog[j].event = "paths" <=> rcRun.config = <<j>>
                /\ rcRun.config = <<>> =>
                      Len(LookupLog) = Len(kDefaultConfigLocations)
                /\ rcRun.config # <<>> => Len(LookupLog) = rcRun.config[1]
    /\ rcRun.main.st # "none" =>
          /\ rcRun.main.repository_config =>
                rcRun.main.config_file.from = "command line"
          /\ (~rcRun.main.repository_config /\ rcRun.config # <<>>) =>
                rcRun.main.config_file =
                    [from |-> "rc", index |-> rcRun.config[1]]
          /\ (~rcRun.main.repository_config /\ rcRun.config = <<>>) =>
                /\ rcRun.main.st = "exited"
                /\ rcRun.main.exit = "kExitConfigError"

\* a lookup order of two entries of which only the second exists as a file
C38_Witness ==
    /\ rcRun.st = "returned" /\ rc.hasLookup
    /\ Len(rc.lookup) = 2
    /\ Resolves(rc.lookup[1]) /\ ~rc.lookup[1].exists
    /\ rcRun.config = <<2>>
    /\ rcRun.main.st = "done"
    /\ rcRun.main.config_file = [from |-> "rc", index |-> 2]

\* C39 (as stated): for every command named in "just args" the vector stored
\* in just_args is the list of strings of the rc file.
C39_JustArgsAsGiven ==
    rcRun.st = "returned" =>
        \A c \in JustCommands :
            rc.just_args[c].present =>
                /\ rcRun.just_args[c].present
                /\ rcRun.just_args[c].args = rc.just_args[c].args

====
